---- MODULE Spec2Model ----
(***************************************************************************)
(* Resource_assistant: the orchestration pipeline that turns a company     *)
(* name into an analysis result (planner -> executor -> verifier), the     *)
(* four resource-search adapters and the verifier's repair/normalization.  *)
(*                                                                         *)
(* Conventions.                                                            *)
(*  - A Python str is a sequence of tokens; a token is a run of characters *)
(*    that no modelled operation splits (a word, a single space " ", a     *)
(*    URL part).  "" is <<>>.  len() is the sum of the tokens' lengths,    *)
(*    str.replace(" ", "+") maps the space tokens, str.split() cuts at     *)
(*    the space tokens.                                                    *)
(*  - A Python dict is a function whose DOMAIN is its key set; {} is <<>>. *)
(*  - A Python list is a sequence.                                         *)
(*  - A call that can raise returns an outcome [raised, value].            *)
(***************************************************************************)
EXTENDS Integers, Sequences, FiniteSets, TLC

VARIABLES
    pc,          \* analyze_company / execute_plan: the statement about to run
    a_company,   \* analyze_company: the company name the run was started with
    env,         \* the backends that yield no hit during this run
    ad,          \* a call of an adapter's search_use_case, request by request
    pl,          \* a call of create_plan, statement by statement
    nw,          \* a call of _fetch_and_summarize_news, statement by statement
    sm,          \* a call of _summarize_company and the verifier's check of its result
    rd,          \* a call of _search_resources whose tasks may raise, task by task
    tw,          \* two calls of execute_plan on two plans, phase by phase
    a_plan,      \* analyze_company: the plan returned by create_plan
    e_info,      \* execute_plan: company_info, the web-search results of phase 1
    e_results,   \* execute_plan: the dict `results` under construction
    e_generated, \* _generate_use_cases: what generate_structured_output handed back
    e_use_cases, \* execute_plan: the value returned by _generate_use_cases
    e_idx,       \* execute_plan: 1-based index of the use case being processed
    e_query,     \* _search_resources: search_query of the current round
    e_resources, \* _search_resources: the dict `resources` of the current round
    e_futures,   \* _search_resources: what each submitted task returns
    e_running,   \* _search_resources: the backends whose task is in flight
    progress,    \* the messages the executor passed to the progress callback
    v_pc,        \* verifier: position in verify_and_finalize
    v_raw,       \* verifier: the argument as it was when the call started
    v_results,   \* verifier: the object `results` refers to (mutated in place)
    v_issues,    \* verifier: the list returned by _check_completeness
    v_final      \* verifier: the value returned by verify_and_finalize

runVars == <<pc, a_company, env, ad, pl, nw, sm, rd, tw, a_plan, e_info, e_results, e_generated, e_use_cases, e_idx,
             e_query, e_resources, e_futures, e_running, progress>>
verVars == <<v_pc, v_raw, v_results, v_issues, v_final>>
vars == <<pc, a_company, env, ad, pl, nw, sm, rd, tw, a_plan, e_info, e_results, e_generated, e_use_cases, e_idx,
          e_query, e_resources, e_futures, e_running, progress,
          v_pc, v_raw, v_results, v_issues, v_final>>

----------------------------------------------------------------------------
(* Bounds of the model *)

\* longest ai_use_cases list handed to the verifier on its own
MaxRawUseCases == 2

\* most words of a query handed to an adapter on its own
MaxQueryWords == 5

\* longest generated array whose entries vary in shape
MaxGenLen == 2

\* how far a generated array exceeds the cap of MaxUseCases entries
MaxOverCap == 1

(* Program constants *)

\* executor_agent.py:268  use_cases[:10]
MaxUseCases == 10

\* executor_agent.py:34-37  max_results=5 of the four tools
MaxResults == 5

\* github_tool.py:25 (and the other tools' search methods)  retries: int = 2
Retries == 2

\* verifier_agent.py:56  len(company_summary) < 10
MinSummaryLen == 10

----------------------------------------------------------------------------
(* Python primitives *)

EmptyDict == <<>>

Ok(v) == [raised |-> FALSE, value |-> v]
Raise(e) == [raised |-> TRUE, value |-> e]

\* d.get(k, default)
Get(d, k, default) == IF k \in DOMAIN d THEN d[k] ELSE default

\* d[k] = v
Put(d, k, v) == [x \in (DOMAIN d) \cup {k} |-> IF x = k THEN v ELSE d[x]]

\* truth value of a str, list or dict
Truthy(x) == x # <<>>

RECURSIVE StrLen(_)
\* len(s) of a str
StrLen(s) == IF s = <<>> THEN 0 ELSE Len(Head(s)) + StrLen(Tail(s))

\* s.replace(old, new), old a single-token string
StrReplace(s, old, new) == [i \in 1..Len(s) |-> IF s[i] = old THEN new ELSE s[i]]

\* sub in s
Contains(s, sub) ==
    \E i \in 0..(Len(s) - Len(sub)) : SubSeq(s, i + 1, i + Len(sub)) = sub

\* xs[:n]
Take(xs, n) == SubSeq(xs, 1, IF Len(xs) < n THEN Len(xs) ELSE n)

Backends == <<"arxiv", "huggingface", "kaggle", "github">>
BackendKeys == {"arxiv", "huggingface", "kaggle", "github"}

----------------------------------------------------------------------------
(* VerifierAgent *)

\* the four `if not resources.get(<backend>)` tests of one use case
UseCaseIssues(idx, use_case) ==
    LET resources == Get(use_case, "resources", EmptyDict)
        Missing(b, label) ==
            IF ~Truthy(Get(resources, b, <<>>)) THEN << <<idx, label>> >> ELSE <<>>
    IN  Missing("arxiv", "Missing arXiv resources")
        \o Missing("huggingface", "Missing Hugging Face resources")
        \o Missing("kaggle", "Missing Kaggle resources")
        \o Missing("github", "Missing GitHub resources")

RECURSIVE AllUseCaseIssues(_, _)
\* for idx, use_case in enumerate(use_cases)
AllUseCaseIssues(use_cases, idx) ==
    IF idx > Len(use_cases) THEN <<>>
    ELSE UseCaseIssues(idx, use_cases[idx]) \o AllUseCaseIssues(use_cases, idx + 1)

\* VerifierAgent._check_completeness: the list of issues
check_completeness(results) ==
    LET summary == Get(results, "company_summary", <<>>)
        use_cases == Get(results, "ai_use_cases", <<>>)
    IN  Ok((IF ~Truthy(summary) \/ StrLen(summary) < MinSummaryLen
              THEN << <<0, "Missing or incomplete company summary">> >> ELSE <<>>)
           \o (IF ~Truthy(use_cases)
                 THEN << <<0, "No AI use-cases generated">> >> ELSE <<>>)
           \o AllUseCaseIssues(use_cases, 1))

\* the placeholder item _fix_issues writes for one backend
Placeholder(b, name) ==
    LET q == StrReplace(name, " ", "+")
    IN  CASE b = "arxiv" ->
               [title |-> <<"Search", " ", "arXiv", " ", "for:", " ">> \o name,
                url |-> <<"https://arxiv.org", "/", "search/?query=">> \o q]
          [] b = "huggingface" ->
               [name |-> <<"Search", " ", "Hugging", " ", "Face", " ", "for:", " ">> \o name,
                url |-> <<"https://huggingface.co", "/", "search?q=">> \o q]
          [] b = "kaggle" ->
               [title |-> <<"Search", " ", "Kaggle", " ", "for:", " ">> \o name,
                url |-> <<"https://www.kaggle.com", "/", "search?q=">> \o q]
          [] b = "github" ->
               [name |-> <<"Search", " ", "GitHub", " ", "for:", " ">> \o name,
                url |-> <<"https://github.com", "/", "search?q=">> \o q
                          \o <<"&type=repositories">>,
                stars |-> 0]

RECURSIVE FixResources(_, _, _)
\* the four `if not resources.get(b): resources[b] = [placeholder]` statements,
\* applied in the order of the source to the dict `resources`
FixResources(resources, name, i) ==
    IF i > Len(Backends) THEN resources
    ELSE LET b == Backends[i]
             fixed == IF ~Truthy(Get(resources, b, <<>>))
                        THEN Put(resources, b, <<Placeholder(b, name)>>)
                        ELSE resources
         IN  FixResources(fixed, name, i + 1)

\* one iteration of the loop of _fix_issues.  `resources` is
\* use_case.get("resources", {}): the use case's own dict when the key is
\* there (the writes land in the use case), a fresh dict otherwise (the
\* writes land in a temporary the use case never refers to).
FixUseCase(use_case) ==
    LET name == Get(use_case, "use_case", <<>>)
    IN  IF "resources" \in DOMAIN use_case
          THEN [use_case EXCEPT !["resources"] =
                    FixResources(use_case["resources"], name, 1)]
          ELSE use_case

\* mutant: a reported summary is replaced by a stock sentence
fix_issues_repairs_summary(results, issues) ==
    LET reported == \E i \in 1..Len(issues) :
                        issues[i] = <<0, "Missing or incomplete company summary">>
        summarized == IF reported
                        THEN Put(results, "company_summary", <<"Summary not available.">>)
                        ELSE results
    IN  IF "ai_use_cases" \in DOMAIN summarized
          THEN Ok([summarized EXCEPT !["ai_use_cases"] =
                      [i \in 1..Len(summarized["ai_use_cases"]) |->
                          FixUseCase(summarized["ai_use_cases"][i])]])
          ELSE Ok(summarized)

\* VerifierAgent._fix_issues: the object `results` after the in-place repair
fix_issues(results, issues) ==
    IF "ai_use_cases" \in DOMAIN results
      THEN Ok([results EXCEPT !["ai_use_cases"] =
                  [i \in 1..Len(results["ai_use_cases"]) |->
                      FixUseCase(results["ai_use_cases"][i])]])
      ELSE Ok(results)

\* mutant: the two fields written from each other's source
normalize_arxiv_swapped(resources) ==
    [i \in 1..Len(resources) |->
        [title |-> Get(resources[i], "url", <<>>),
         url |-> Get(resources[i], "title", <<>>)]]

normalize_arxiv(resources) ==
    [i \in 1..Len(resources) |->
        [title |-> Get(resources[i], "title", <<>>),
         url |-> Get(resources[i], "url", <<>>)]]

normalize_huggingface(resources) ==
    [i \in 1..Len(resources) |->
        [name |-> Get(resources[i], "name", <<>>),
         url |-> Get(resources[i], "url", <<>>)]]

normalize_kaggle(resources) ==
    [i \in 1..Len(resources) |->
        [title |-> Get(resources[i], "title", <<>>),
         url |-> Get(resources[i], "url", <<>>)]]

\* mutant: each item is copied whole instead of projected
normalize_github_copied(resources) ==
    [i \in 1..Len(resources) |-> resources[i]]

normalize_github(resources) ==
    [i \in 1..Len(resources) |->
        [name |-> Get(resources[i], "name", <<>>),
         url |-> Get(resources[i], "url", <<>>),
         stars |-> Get(resources[i], "stars", 0)]]

\* the dict built for one use case in _normalize_output
NormalizeUseCase(use_case) ==
    LET resources == Get(use_case, "resources", EmptyDict)
    IN  [use_case |-> Get(use_case, "use_case", <<>>),
         description |-> Get(use_case, "description", <<>>),
         resources |->
            [arxiv |-> normalize_arxiv(Get(resources, "arxiv", <<>>)),
             huggingface |-> normalize_huggingface(Get(resources, "huggingface", <<>>)),
             kaggle |-> normalize_kaggle(Get(resources, "kaggle", <<>>)),
             github |-> normalize_github(Get(resources, "github", <<>>))]]

\* mutant: results["ai_use_cases"] instead of results.get("ai_use_cases", [])
normalize_output_subscript(results) ==
    IF "ai_use_cases" \notin DOMAIN results THEN Raise("KeyError")
    ELSE Ok([company |-> Get(results, "company", <<>>),
             company_summary |-> Get(results, "company_summary", <<>>),
             news_summary |-> Get(results, "news_summary", <<>>),
             ai_use_cases |-> [i \in 1..Len(results["ai_use_cases"]) |->
                                  NormalizeUseCase(results["ai_use_cases"][i])]])

\* VerifierAgent._normalize_output
normalize_output(results) ==
    LET use_cases == Get(results, "ai_use_cases", <<>>)
    IN  Ok([company |-> Get(results, "company", <<>>),
            company_summary |-> Get(results, "company_summary", <<>>),
            news_summary |-> Get(results, "news_summary", <<>>),
            ai_use_cases |-> [i \in 1..Len(use_cases) |-> NormalizeUseCase(use_cases[i])]])

----------------------------------------------------------------------------
(* Inputs of the verifier taken on its own: results that are incomplete at *)
(* every level (missing keys, missing or partial resource maps, items with *)
(* transient or missing fields).                                           *)

Hit(b) ==
    CASE b = "arxiv" ->
           [title |-> <<"Paper">>, url |-> <<"http://arxiv.org/abs/1">>,
            summary |-> <<"Abstract">>]
      [] b = "huggingface" ->
           [name |-> <<"org/model">>, url |-> <<"https://huggingface.co", "/", "org/model">>,
            downloads |-> 7, type |-> <<"model">>]
      [] b = "kaggle" ->
           [title |-> <<"Dataset">>, url |-> <<"https://www.kaggle.com", "/", "datasets/d">>]
      [] b = "github" ->
           [name |-> <<"org/repo">>, url |-> <<"https://github.com", "/", "org/repo">>,
            stars |-> 42, description |-> <<"A", " ", "repo">>]

\* an item that lacks its title/name (and stars)
PartialItem == [url |-> <<"http://example.org">>]

FullList(b) == <<Hit(b), PartialItem>>

RawResourceMaps ==
    {EmptyDict,
     [b \in BackendKeys |-> <<>>],
     [b \in BackendKeys |-> FullList(b)]}
    \cup {[b \in BackendKeys |-> IF b = e THEN <<>> ELSE FullList(b)] : e \in BackendKeys}
    \cup {[b \in BackendKeys \ {e} |-> FullList(b)] : e \in BackendKeys}

RawNames == {<<"X">>, <<"fraud", " ", "detection">>}

RawUseCases ==
    {[use_case |-> n, description |-> <<"d">>, search_keywords |-> n, resources |-> r] :
        n \in RawNames, r \in RawResourceMaps}
    \cup {[use_case |-> n, description |-> <<"d">>] : n \in RawNames}
    \cup {[resources |-> EmptyDict], EmptyDict}

\* the lists of at most `longest` raw use cases
RawUseCaseLists(longest) ==
    UNION {[1..n -> RawUseCases] : n \in 0..longest}

RawSummaries == {<<>>, <<"Too", " ", "short">>, <<"Acme", " ", "builds", " ", "rockets.">>}

\* the results handed to the verifier, with at most `longest` use cases
RawResults(longest) ==
    {[company |-> <<"Acme">>, company_summary |-> s, news_summary |-> <<"News">>,
      ai_use_cases |-> u] : s \in RawSummaries, u \in RawUseCaseLists(longest)}
    \cup {[company |-> <<"Acme">>, ai_use_cases |-> u] : u \in RawUseCaseLists(longest)}
    \cup {EmptyDict}

----------------------------------------------------------------------------
(* LLMClient: what generate_structured_output and generate_text hand back *)

\* decoded JSON values, tagged with their Python type
JList(items) == [kind |-> "list", items |-> items]
JDict(d) == [kind |-> "dict", d |-> d]
\* a str in a place where a list or dict was asked for, as its characters
JStr(chars) == [kind |-> "str", chars |-> chars]
\* a number, true, false or null
JScalar == [kind |-> "scalar"]
\* generate_structured_output raised (provider error or json.JSONDecodeError)
GenError == [kind |-> "error"]
\* generate_structured_output has not been called yet
NotGenerated == [kind |-> "none"]

\* value[:n] of a decoded JSON value: lists and strs slice, a dict or a
\* scalar raises (TypeError), which the caller's `except Exception` catches
Slice(value, n) ==
    IF value.kind = "list" THEN Ok(JList(Take(value.items, n)))
    ELSE IF value.kind = "str" THEN Ok(JStr(Take(value.chars, n)))
    ELSE Raise("TypeError")

\* len(value) of a list or str
Length(value) == IF value.kind = "str" THEN Len(value.chars) ELSE Len(value.items)

----------------------------------------------------------------------------
(* PlannerAgent *)

Step(id, action, tool) == [id |-> id, action |-> action, tool |-> tool]

\* PlannerAgent._get_default_plan
get_default_plan(company) ==
    [company |-> company,
     steps |-> <<Step(1, "search_company_info", <<"DuckDuckGoTool">>),
                 Step(2, "summarize_company", <<"LLM">>),
                 Step(3, "generate_ai_use_cases", <<"LLM">>),
                 Step(4, "search_resources",
                      <<"ArxivTool", "HuggingFaceTool", "KaggleTool", "GitHubTool">>),
                 Step(5, "verify_and_finalize", <<"VerifierAgent">>)>>]

\* mutant: plan.setdefault("company", company_name) instead of the assignment
create_plan_setdefault(company, out) ==
    IF out.kind = "dict"
      THEN (IF "company" \in DOMAIN out.d THEN out.d ELSE Put(out.d, "company", company))
    ELSE get_default_plan(company)

\* PlannerAgent.create_plan, given what generate_structured_output handed
\* back: plan["company"] = company_name succeeds on a dict and raises
\* TypeError on a list, str or scalar; every exception yields the default plan
create_plan(company, out) ==
    IF out.kind = "dict" THEN Put(out.d, "company", company)
    ELSE get_default_plan(company)

\* the call create_plan(company) as it starts
PlannerStart(company) ==
    [company |-> company,
     pc |-> "generate",
     out |-> NotGenerated,     \* what generate_structured_output handed back
     plan |-> EmptyDict]       \* the value create_plan returned

\* no call of create_plan is being followed
PlannerIdle == [PlannerStart(<<>>) EXCEPT !.pc = "idle"]

----------------------------------------------------------------------------
(* The four search adapters: ArxivTool, HuggingFaceTool, KaggleTool,        *)
(* GitHubTool.  search_use_case is a sequence of search calls (one per      *)
(* sub-search and broadening level); a search call is a loop of at most     *)
(* Retries attempts, each attempt one request to the backend.               *)

\* decimal numerals, to tell items and use cases apart
Digits == <<"1", "2", "3", "4", "5", "6", "7", "8", "9", "10", "11", "12", "13">>

\* KaggleTool._get_placeholder_results
get_placeholder_results(query, search_type) ==
    <<[title |-> <<"Search", " ", "Kaggle", " ">> \o search_type \o <<" ", "for:", " ">>
                 \o query,
       url |-> <<"https://www.kaggle.com", "/", "search?q=">> \o StrReplace(query, " ", "+")]>>

\* use_case.split()
Words(s) == SelectSeq(s, LAMBDA t : t # " ")

RECURSIVE Join(_)
\* " ".join(words)
Join(words) ==
    IF Len(words) <= 1 THEN words
    ELSE <<Head(words), " ">> \o Join(Tail(words))

\* the sub-searches one level of backend b consists of, in order
SubSearches(b) ==
    CASE b = "arxiv" -> <<"papers">>
      [] b = "huggingface" -> <<"models", "datasets">>
      [] b = "kaggle" -> <<"datasets", "notebooks">>
      [] b = "github" -> <<"repositories">>

\* mutant: the broadest query keeps the last two words
LevelQuery_LastWords(query, level) ==
    CASE level = 1 -> query
      [] level = 2 -> Join(Take(Words(query), 3))
      [] level = 3 -> Join(SubSeq(Words(query), Len(Words(query)) - 1, Len(Words(query))))

\* the query searched at a broadening level: the query as given, its first
\* three words, its first two words
LevelQuery(query, level) ==
    CASE level = 1 -> query
      [] level = 2 -> Join(Take(Words(query), 3))
      [] level = 3 -> Join(Take(Words(query), 2))

\* mutant: the first-3-words level is tried whenever the first-2-words
\* level is
NextLevel_NeverSkips(b, query, level) ==
    IF b \notin {"kaggle", "github"} THEN 0
    ELSE IF level = 1 /\ Len(Words(query)) > 2 THEN 2
    ELSE IF level < 3 /\ Len(Words(query)) > 2 THEN 3
    ELSE 0

\* mutant: the word-count tests use >= instead of >
NextLevel_AtLeast(b, query, level) ==
    IF b \notin {"kaggle", "github"} THEN 0
    ELSE IF level = 1 /\ Len(Words(query)) >= 3 THEN 2
    ELSE IF level < 3 /\ Len(Words(query)) >= 2 THEN 3
    ELSE 0

\* the level tried after `level` found nothing, 0 when there is none: only
\* Kaggle and GitHub broaden; level 2 needs more than 3 words, level 3 more
\* than 2
NextLevel(b, query, level) ==
    IF b \notin {"kaggle", "github"} THEN 0
    ELSE IF level = 1 /\ Len(Words(query)) > 3 THEN 2
    ELSE IF level < 3 /\ Len(Words(query)) > 2 THEN 3
    ELSE 0

\* the i-th item a successful request of a sub-search yields
HitItem(sub, i) ==
    CASE sub = "papers" ->
           [title |-> <<"Paper", " ", Digits[i]>>,
            url |-> <<"http://arxiv.org/abs/", Digits[i]>>,
            summary |-> <<"Abstract">>]
      [] sub = "models" ->
           [name |-> <<"org/model", Digits[i]>>,
            url |-> <<"https://huggingface.co", "/", "org/model", Digits[i]>>,
            downloads |-> 7, type |-> <<"model">>]
      [] sub = "datasets" ->
           [title |-> <<"Dataset", " ", Digits[i]>>,
            url |-> <<"https://www.kaggle.com", "/", "datasets/", Digits[i]>>]
      [] sub = "notebooks" ->
           [title |-> <<"Notebook", " ", Digits[i]>>,
            url |-> <<"https://www.kaggle.com", "/", "code/", Digits[i]>>]
      [] sub = "repositories" ->
           [name |-> <<"org/repo", Digits[i]>>,
            url |-> <<"https://github.com", "/", "org/repo", Digits[i]>>,
            stars |-> 42, description |-> <<"A", " ", "repo">>]

\* a Hugging Face dataset item (the sub-search "datasets" of that backend)
HFDatasetItem(i) ==
    [name |-> <<"org/data", Digits[i]>>,
     url |-> <<"https://huggingface.co", "/", "datasets/", "org/data", Digits[i]>>,
     downloads |-> 7, type |-> <<"dataset">>]

\* the list a successful request with n hits yields
Hits(b, sub, n) ==
    [i \in 1..n |-> IF b = "huggingface" /\ sub = "datasets"
                      THEN HFDatasetItem(i) ELSE HitItem(sub, i)]

\* what a search call returns after its last attempt failed: the placeholder
\* from KaggleTool.search, [] from the others
SearchFailure(b, query, sub) ==
    IF b = "kaggle" THEN get_placeholder_results(query, <<sub>>) ELSE <<>>

\* 'search?q=' in item['url']
HasSearchUrl(item) == \E i \in 1..Len(item.url) : item.url[i] = "search?q="

\* KaggleTool.search_use_case: is_valid_result
is_valid_result(res_list) ==
    /\ Truthy(res_list)
    /\ ~(Len(res_list) = 1 /\ HasSearchUrl(res_list[1]))

\* mutant: the lists are merged without the filter
WithoutSearchUrls_Unfiltered(items) == items

\* [d for d in items if 'search?q=' not in d['url']]
WithoutSearchUrls(items) == SelectSeq(items, LAMBDA d : ~HasSearchUrl(d))

\* mutant: Hugging Face returns the concatenation without the slice
LevelResult_Unsliced(b, first, second) ==
    CASE b = "arxiv" -> [found |-> TRUE, value |-> second]
      [] b = "huggingface" -> [found |-> TRUE, value |-> first \o second]
      [] b = "github" -> [found |-> Truthy(second), value |-> second]
      [] b = "kaggle" ->
           LET valid == WithoutSearchUrls(first) \o WithoutSearchUrls(second)
           IN  [found |-> /\ (is_valid_result(first) \/ is_valid_result(second))
                          /\ Truthy(valid),
                value |-> Take(valid, MaxResults)]

\* what a level hands back once its sub-searches have returned `first` (only
\* for two sub-searches) and `second`: [found, value]; found is FALSE when
\* the adapter goes on to the next level or to its final return
LevelResult(b, first, second) ==
    CASE b = "arxiv" -> [found |-> TRUE, value |-> second]
      [] b = "huggingface" ->
           [found |-> TRUE, value |-> Take(first \o second, MaxResults)]
      [] b = "github" -> [found |-> Truthy(second), value |-> second]
      [] b = "kaggle" ->
           LET valid == WithoutSearchUrls(first) \o WithoutSearchUrls(second)
           IN  [found |-> /\ (is_valid_result(first) \/ is_valid_result(second))
                          /\ Truthy(valid),
                value |-> Take(valid, MaxResults)]

\* mutant: Kaggle ends like the other adapters, with the empty list
FinalFailure_Empty(b, query) == <<>>

\* mutant: the placeholder is built from the last query searched
FinalFailure_BroadestQuery(b, query) ==
    IF b = "kaggle"
      THEN get_placeholder_results(
               IF Len(Words(query)) > 2 THEN Join(Take(Words(query), 2)) ELSE query,
               <<"datasets", " ", "+", " ", "notebooks">>)
      ELSE <<>>

\* the final return of search_use_case when no level found anything
FinalFailure(b, query) ==
    IF b = "kaggle"
      THEN get_placeholder_results(query, <<"datasets", " ", "+", " ", "notebooks">>)
      ELSE <<>>

\* the state of a call search_use_case(query) of backend b as it starts
AdapterStart(b, query) ==
    [backend |-> b,
     query |-> query,
     level |-> 1,        \* broadening level being searched
     sub |-> 1,          \* index in SubSearches(b) of the search call in progress
     attempt |-> 0,      \* the loop variable of the search call in progress
     first |-> <<>>,     \* what the level's first sub-search returned
     done |-> FALSE,
     raised |-> FALSE,   \* search_use_case ended with an exception
     result |-> <<>>,    \* the value search_use_case returned
     log |-> <<>>]       \* the requests made so far

\* mutant: a level that found something is still followed by the broader
\* levels, and the broadest level's outcome is returned
AfterSearch_AlwaysBroaden(st, value) ==
    IF st.sub < Len(SubSearches(st.backend))
      THEN [st EXCEPT !.sub = st.sub + 1, !.attempt = 0, !.first = value]
    ELSE LET r == LevelResult(st.backend, st.first, value)
             next == NextLevel(st.backend, st.query, st.level)
         IN  IF next # 0
               THEN [st EXCEPT !.level = next, !.sub = 1, !.attempt = 0, !.first = <<>>]
             ELSE IF r.found
               THEN [st EXCEPT !.done = TRUE, !.result = r.value]
             ELSE [st EXCEPT !.done = TRUE, !.result = FinalFailure(st.backend, st.query)]

\* the adapter after the search call in progress returned `value`
AfterSearch(st, value) ==
    IF st.sub < Len(SubSearches(st.backend))
      THEN [st EXCEPT !.sub = st.sub + 1, !.attempt = 0, !.first = value]
    ELSE LET r == LevelResult(st.backend, st.first, value)
             next == NextLevel(st.backend, st.query, st.level)
         IN  IF r.found
               THEN [st EXCEPT !.done = TRUE, !.result = r.value]
             ELSE IF next # 0
               THEN [st EXCEPT !.level = next, !.sub = 1, !.attempt = 0, !.first = <<>>]
             ELSE [st EXCEPT !.done = TRUE, !.result = FinalFailure(st.backend, st.query)]

\* mutant: the retry loop runs once more than `retries`
AdapterStep_ExtraRetry(st, response) ==
    LET sub == SubSearches(st.backend)[st.sub]
        query == LevelQuery(st.query, st.level)
        logged == [st EXCEPT !.log = Append(@, [query |-> query, sub |-> sub,
                                                  attempt |-> st.attempt,
                                                  ok |-> response.ok,
                                                  n |-> response.n])]
    IN  IF response.ok
          THEN AfterSearch(logged, Hits(st.backend, sub, response.n))
        ELSE IF st.attempt < Retries
          THEN [logged EXCEPT !.attempt = st.attempt + 1]
        ELSE AfterSearch(logged, SearchFailure(st.backend, query, sub))

\* mutant: after the last attempt the except clause re-raises
AdapterStep_Reraise(st, response) ==
    LET sub == SubSearches(st.backend)[st.sub]
        query == LevelQuery(st.query, st.level)
        logged == [st EXCEPT !.log = Append(@, [query |-> query, sub |-> sub,
                                                  attempt |-> st.attempt,
                                                  ok |-> response.ok,
                                                  n |-> response.n])]
    IN  IF response.ok
          THEN AfterSearch(logged, Hits(st.backend, sub, response.n))
        ELSE IF st.attempt < Retries - 1
          THEN [logged EXCEPT !.attempt = st.attempt + 1]
        ELSE [logged EXCEPT !.done = TRUE, !.raised = TRUE]

\* mutant: a response without items is treated like a failed request
AdapterStep_RetryOnEmpty(st, response) ==
    LET sub == SubSearches(st.backend)[st.sub]
        query == LevelQuery(st.query, st.level)
        logged == [st EXCEPT !.log = Append(@, [query |-> query, sub |-> sub,
                                                  attempt |-> st.attempt,
                                                  ok |-> response.ok,
                                                  n |-> response.n])]
    IN  IF response.ok /\ response.n > 0
          THEN AfterSearch(logged, Hits(st.backend, sub, response.n))
        ELSE IF st.attempt < Retries - 1
          THEN [logged EXCEPT !.attempt = st.attempt + 1]
        ELSE AfterSearch(logged, SearchFailure(st.backend, query, sub))

\* one attempt of the search call in progress (one iteration of
\* `for attempt in range(retries)`): the request succeeds with n hits and
\* the search returns them, or it raises and the search retries or, after
\* the last attempt, returns its failure value
AdapterStep(st, response) ==
    LET sub == SubSearches(st.backend)[st.sub]
        query == LevelQuery(st.query, st.level)
        logged == [st EXCEPT !.log = Append(@, [query |-> query, sub |-> sub,
                                                  attempt |-> st.attempt,
                                                  ok |-> response.ok,
                                                  n |-> response.n])]
    IN  IF response.ok
          THEN AfterSearch(logged, Hits(st.backend, sub, response.n))
        ELSE IF st.attempt < Retries - 1
          THEN [logged EXCEPT !.attempt = st.attempt + 1]
        ELSE AfterSearch(logged, SearchFailure(st.backend, query, sub))

\* a request that succeeds with n hits; a request that raises
Success(n) == [ok |-> TRUE, n |-> n]
Failure == [ok |-> FALSE, n |-> 0]

\* no adapter call is being followed
AdapterIdle == [AdapterStart("arxiv", <<>>) EXCEPT !.done = TRUE]

RECURSIVE RunAdapter(_, _)
\* search_use_case run to its return against a backend that answers every
\* request the same way
RunAdapter(st, response) ==
    IF st.done THEN st
    ELSE CHOOSE r \in {RunAdapter(s, response) : s \in {AdapterStep(st, response)}} : TRUE

----------------------------------------------------------------------------
(* ExecutorAgent *)

\* ExecutorAgent._search_company_info: the tool's list, [] when it raises
search_company_info(outcome) == IF outcome.raised THEN <<>> ELSE outcome.value

NoNewsSentinel == <<"No recent news or funding information available.">>
NewsErrorSentinel == <<"Error generating news summary.">>

\* ExecutorAgent._fetch_and_summarize_news, given the primary articles, the
\* hits of the two fallback web searches and the outcome of generate_text.
\* queries: the fallback queries issued; collected: what goes into news_text.
fetch_and_summarize_news(company, articles, funding, news, llm) ==
    LET fallback == ~Truthy(articles)
        collected == IF fallback THEN Take(funding, 3) \o Take(news, 3)
                     ELSE Take(articles, 7)
        has_text == Truthy(collected)
    IN  [queries |-> IF fallback
                       THEN <<company \o <<" ", "funding rounds investors crunchbase">>,
                              company \o <<" ", "latest business news">>>>
                       ELSE <<>>,
         collected |-> collected,
         llm_called |-> has_text,
         summary |-> IF ~has_text THEN NoNewsSentinel
                     ELSE IF llm.raised THEN NewsErrorSentinel
                     ELSE llm.value]

\* the slice bounds of _fetch_and_summarize_news: articles[:7], results[:3]
ArticleCap == 7
FallbackCap == 3

CouldNotRetrieveSentinel == <<"Could not retrieve news or funding information.">>

\* the two queries of the fallback, in the order they are searched
FallbackQuery(company, which) ==
    CASE which = 1 -> company \o <<" ", "funding rounds investors crunchbase">>
      [] which = 2 -> company \o <<" ", "latest business news">>

\* mutant: the whole result list is merged
CollectResults_Uncapped(search_results, found) ==
    IF Truthy(found) THEN search_results \o found ELSE search_results

\* if results: search_results.extend(results[:3])
CollectResults(search_results, found) ==
    IF Truthy(found) THEN search_results \o Take(found, FallbackCap) ELSE search_results

\* the call _fetch_and_summarize_news(company) as it starts
NewsStart(company) ==
    [company |-> company,
     pc |-> "primary",
     queries |-> <<>>,        \* the queries handed to ddg_tool.search so far
     collected |-> <<>>,      \* the items news_text is built from
     source |-> "none",       \* where they came from
     llm_calls |-> 0,         \* calls of generate_text
     llm_raised |-> FALSE,    \* generate_text raised
     raised |-> FALSE,
     summary |-> <<>>]        \* the value returned

\* no call of _fetch_and_summarize_news is being followed
NewsIdle == [NewsStart(<<>>) EXCEPT !.pc = "idle"]

\* lines 110-121: the primary source answered with `articles` (a list, or
\* None when NewsTool caught an error); an empty answer raises ValueError
\* into the fallback
AfterPrimary(st, articles) ==
    IF articles.kind = "list" /\ Truthy(articles.items)
      THEN [st EXCEPT !.collected = Take(articles.items, ArticleCap),
                      !.source = "primary", !.pc = "check"]
      ELSE [st EXCEPT !.pc = "fallback_1"]

\* lines 123-149: fallback search number `which` (1 funding, 2 general news)
\* is issued and answers with `outcome`; an exception ends the call with the
\* could-not-retrieve sentence
AfterFallback(st, which, outcome) ==
    LET asked == [st EXCEPT !.queries = Append(@, FallbackQuery(st.company, which))]
    IN  IF outcome.raised
          THEN [asked EXCEPT !.summary = CouldNotRetrieveSentinel, !.pc = "done"]
          ELSE [asked EXCEPT !.collected = CollectResults(st.collected, outcome.value),
                             !.source = IF Truthy(CollectResults(st.collected, outcome.value))
                                          THEN "fallback" ELSE "none",
                             !.pc = IF which = 1 THEN "fallback_2" ELSE "check"]

\* mutant: the summarizer is called on the default text as well
AfterCheck_AlwaysSummarize(st) == [st EXCEPT !.pc = "summarize"]

\* lines 151-152: news_text is the default text exactly when nothing was
\* collected
AfterCheck(st) ==
    IF ~Truthy(st.collected)
      THEN [st EXCEPT !.summary = NoNewsSentinel, !.pc = "done"]
      ELSE [st EXCEPT !.pc = "summarize"]

\* mutant: the except clause returns news_text
AfterSummarize_RawText(st, llm) ==
    [st EXCEPT !.llm_calls = @ + 1,
               !.llm_raised = llm.raised,
               !.summary = IF llm.raised THEN <<"Title: ">> ELSE llm.value,
               !.pc = "done"]

\* lines 183-188: generate_text is called; its text, or the error sentence
AfterSummarize(st, llm) ==
    [st EXCEPT !.llm_calls = @ + 1,
               !.llm_raised = llm.raised,
               !.summary = IF llm.raised THEN NewsErrorSentinel ELSE llm.value,
               !.pc = "done"]

\* mutant: a failed generation leaves the summary empty
summarize_company_empty_on_error(company, info, llm) ==
    IF llm.raised THEN <<>> ELSE llm.value

\* ExecutorAgent._summarize_company: the generated text, or the templated
\* sentence when generate_text raised
summarize_company(company, info, llm) ==
    IF llm.raised
      THEN company \o <<" is a company in the technology/business sector.">>
      ELSE llm.value

\* the state of a call _summarize_company(company, info) as it starts; the
\* value it returns is then put through the verifier's completeness check
SummaryStart(company, info) ==
    [company |-> company,
     info |-> info,
     pc |-> "generate",
     llm_raised |-> FALSE,   \* generate_text raised
     summary |-> <<>>,       \* the value returned
     issues |-> <<>>]        \* what _check_completeness reported

\* no call of _summarize_company is being followed
SummaryIdle == [SummaryStart(<<>>, <<>>) EXCEPT !.pc = "idle"]

\* lines 217-222: generate_text answered with `llm`
AfterGenerate(st, llm) ==
    [st EXCEPT !.pc = "check",
               !.llm_raised = llm.raised,
               !.summary = summarize_company(st.company, st.info, llm)]

\* _check_completeness on the results execute_plan builds around the summary
AfterCompleteness(st) ==
    [st EXCEPT !.pc = "done",
               !.issues = check_completeness(
                              [company |-> st.company,
                               company_summary |-> st.summary,
                               news_summary |-> NoNewsSentinel,
                               ai_use_cases |-> <<>>]).value]

\* ExecutorAgent._get_default_use_cases
get_default_use_cases(company) ==
    <<JDict([use_case |-> <<"Customer", " ", "Service", " ", "Chatbot">>,
             description |->
                <<"Implement an AI-powered chatbot to handle customer inquiries for ">>
                \o company
                \o <<", improving response times and customer satisfaction.">>]),
      JDict([use_case |-> <<"Predictive", " ", "Analytics">>,
             description |->
                <<"Use machine learning to predict trends and patterns in ">>
                \o company \o <<"'s business data for better decision-making.">>]),
      JDict([use_case |-> <<"Process", " ", "Automation">>,
             description |->
                <<"Automate repetitive tasks and workflows at ">>
                \o company
                \o <<" using AI to increase efficiency and reduce costs.">>])>>

\* mutant: the except clause returns an empty list instead of the defaults
generate_use_cases_empty_on_error(company, out) ==
    IF out.kind = "error" THEN JList(<<>>)
    ELSE IF out.kind = "list" THEN JList(Take(out.items, MaxUseCases))
    ELSE IF out.kind = "dict" /\ "use_cases" \in DOMAIN out.d
      THEN LET sliced == Slice(out.d["use_cases"], MaxUseCases)
           IN  IF sliced.raised THEN JList(<<>>)
               ELSE sliced.value
    ELSE JList(get_default_use_cases(company))

\* mutant: the bare array is returned without the [:10] slice
generate_use_cases_uncapped(company, out) ==
    IF out.kind = "error" THEN JList(get_default_use_cases(company))
    ELSE IF out.kind = "list" THEN JList(out.items)
    ELSE IF out.kind = "dict" /\ "use_cases" \in DOMAIN out.d
      THEN LET sliced == Slice(out.d["use_cases"], MaxUseCases)
           IN  IF sliced.raised THEN JList(get_default_use_cases(company))
               ELSE sliced.value
    ELSE JList(get_default_use_cases(company))

\* ExecutorAgent._generate_use_cases, given what generate_structured_output
\* handed back.  The value returned is tagged: a list, or (when the object's
\* use_cases value was a str) the sliced str.
generate_use_cases(company, out) ==
    IF out.kind = "error" THEN JList(get_default_use_cases(company))
    ELSE IF out.kind = "list" THEN JList(Take(out.items, MaxUseCases))
    ELSE IF out.kind = "dict" /\ "use_cases" \in DOMAIN out.d
      THEN LET sliced == Slice(out.d["use_cases"], MaxUseCases)
           IN  IF sliced.raised THEN JList(get_default_use_cases(company))
               ELSE sliced.value
    ELSE JList(get_default_use_cases(company))

\* the i-th element the loop `for idx, use_case in enumerate(use_cases, 1)`
\* sees: an entry of the list, or a one-character str
ElementAt(value, i) ==
    IF value.kind = "str" THEN JStr(<<value.chars[i]>>) ELSE value.items[i]

\* the str() of a non-dict element
StrOf(element) == element.chars

\* _search_resources: search_query
SearchQuery(use_case_data) ==
    IF use_case_data.kind = "dict"
      THEN Get(use_case_data.d, "search_keywords", Get(use_case_data.d, "use_case", <<>>))
      ELSE StrOf(use_case_data)

\* _search_resources: the dict `resources` before any task has reported
EmptyResources == [b \in BackendKeys |-> <<>>]

\* what the task of backend b hands back for `query` in this run:
\* search_use_case against a backend whose every request fails (b is down)
\* or yields one hit (b is up)
TaskResult(b, query, down) ==
    RunAdapter(AdapterStart(b, query),
               IF b \in down THEN Failure ELSE Success(1)).result

\* mutant: the wrappers report an error under the key "arxiv"
SearchTask_ErrorUnderArxiv(b, outcome) ==
    IF outcome.raised THEN [key |-> "arxiv", result |-> <<>>]
    ELSE [key |-> b, result |-> outcome.value]

\* the wrappers search_arxiv, search_hf, search_kaggle, search_github (lines
\* 317-343): the pair (key, what search_use_case returned), or (key, []) when
\* search_use_case raised
SearchTask(b, outcome) ==
    IF outcome.raised THEN [key |-> b, result |-> <<>>]
    ELSE [key |-> b, result |-> outcome.value]

\* the state of a call of _search_resources once its four tasks are
\* submitted; outcomes[b] is what search_use_case of backend b does
RoundStart(outcomes) ==
    [outcomes |-> outcomes,
     resources |-> EmptyResources,
     running |-> BackendKeys,
     pc |-> "running",
     returned |-> EmptyDict]

\* no call of _search_resources is being followed
RoundIdle ==
    [RoundStart([b \in BackendKeys |-> Ok(<<>>)]) EXCEPT !.running = {}, !.pc = "idle"]

\* lines 354-357: as_completed yields the future of backend b and its pair
\* is stored
AfterCompleted(st, b) ==
    LET pair == SearchTask(b, st.outcomes[b])
    IN  [st EXCEPT !.resources = Put(st.resources, pair.key, pair.result),
                   !.running = st.running \ {b}]

\* line 361, after the pool has shut down
AfterRound(st) == [st EXCEPT !.pc = "returned", !.returned = st.resources]

\* mutant: search_keywords is copied without the name as its default
UseCaseResult_NoNameDefault(use_case, res) ==
    IF use_case.kind # "dict" THEN Raise("AttributeError")
    ELSE IF "use_case" \notin DOMAIN use_case.d THEN Raise("KeyError")
    ELSE IF "description" \notin DOMAIN use_case.d THEN Raise("KeyError")
    ELSE Ok([use_case |-> use_case.d["use_case"],
             description |-> use_case.d["description"],
             search_keywords |-> Get(use_case.d, "search_keywords", <<>>),
             resources |-> res])

\* the dict appended to results["ai_use_cases"] (lines 86-93).  The default
\* use_case["use_case"] of .get is evaluated first: a non-dict element raises
\* AttributeError, a dict without use_case or description raises KeyError.
UseCaseResult(use_case, res) ==
    IF use_case.kind # "dict" THEN Raise("AttributeError")
    ELSE IF "use_case" \notin DOMAIN use_case.d THEN Raise("KeyError")
    ELSE IF "description" \notin DOMAIN use_case.d THEN Raise("KeyError")
    ELSE Ok([use_case |-> use_case.d["use_case"],
             description |-> use_case.d["description"],
             search_keywords |-> Get(use_case.d, "search_keywords", use_case.d["use_case"]),
             resources |-> res])

\* a progress message
Message(text, i, n) == [text |-> text, idx |-> i, total |-> n]

\* what execute_plan does in a phase, as seen from outside: the progress
\* message, the method it then calls and the argument the call is about
Event(message, callee, arg) == [message |-> message, callee |-> callee, arg |-> arg]

\* a call execute_plan(plan) as it starts (lines 56-62): company_name is the
\* only thing taken from the plan
ExecutionStart(plan) ==
    [plan |-> plan,
     company |-> Get(plan, "company", <<>>),
     phase |-> 0,                \* the last phase started
     info |-> <<>>,              \* company_info
     summary |-> <<>>,           \* results["company_summary"]
     use_cases |-> JList(<<>>),
     idx |-> 0,
     events |-> <<>>,
     done |-> FALSE]

\* mutant: a phase runs only if the plan has a step for it
ExecutionStep_FollowsSteps(st, answers) ==
    LET steps == Get(st.plan, "steps", <<>>)
        planned(action) == \E i \in 1..Len(steps) : steps[i].action = action
        log(e, action) == IF planned(action) THEN Append(st.events, e) ELSE st.events
    IN  CASE st.phase = 0 ->
               [st EXCEPT !.phase = 1,
                          !.info = search_company_info(answers.info),
                          !.events = log(Event(Message("Searching for company information...", 0, 0),
                                               "_search_company_info", st.company),
                                         "search_company_info")]
          [] st.phase = 1 ->
               [st EXCEPT !.phase = 2,
                          !.events = log(Event(Message("Analyzing recent news & funding...", 0, 0),
                                               "_fetch_and_summarize_news", st.company),
                                         "summarize_company")]
          [] st.phase = 2 ->
               [st EXCEPT !.phase = 3,
                          !.summary = summarize_company(st.company, st.info, answers.llm),
                          !.events = log(Event(Message("Generating company summary...", 0, 0),
                                               "_summarize_company", st.company),
                                         "summarize_company")]
          [] st.phase = 3 ->
               [st EXCEPT !.phase = 4,
                          !.use_cases = generate_use_cases(st.company, answers.gen),
                          !.idx = 1,
                          !.events = log(Event(Message("Generating AI use-cases...", 0, 0),
                                               "_generate_use_cases", st.company),
                                         "generate_ai_use_cases")]
          [] st.phase = 4 ->
               IF st.idx <= Length(st.use_cases)
                 THEN [st EXCEPT !.idx = st.idx + 1,
                                 !.events = log(Event(Message("Searching resources for use-case",
                                                              st.idx, Length(st.use_cases)),
                                                      "_search_resources",
                                                      SearchQuery(ElementAt(st.use_cases, st.idx))),
                                                "search_resources")]
                 ELSE [st EXCEPT !.done = TRUE]

\* the next phase of execute_plan (lines 64-95), `answers` being what the
\* collaborators hand back in this run: the progress message, then the call
\* of the phase's method; in phase 5 one use case per step, then the return
ExecutionStep(st, answers) ==
    CASE st.phase = 0 ->
           [st EXCEPT !.phase = 1,
                      !.info = search_company_info(answers.info),
                      !.events = Append(@, Event(Message("Searching for company information...", 0, 0),
                                                 "_search_company_info", st.company))]
      [] st.phase = 1 ->
           [st EXCEPT !.phase = 2,
                      !.events = Append(@, Event(Message("Analyzing recent news & funding...", 0, 0),
                                                 "_fetch_and_summarize_news", st.company))]
      [] st.phase = 2 ->
           [st EXCEPT !.phase = 3,
                      !.summary = summarize_company(st.company, st.info, answers.llm),
                      !.events = Append(@, Event(Message("Generating company summary...", 0, 0),
                                                 "_summarize_company", st.company))]
      [] st.phase = 3 ->
           [st EXCEPT !.phase = 4,
                      !.use_cases = generate_use_cases(st.company, answers.gen),
                      !.idx = 1,
                      !.events = Append(@, Event(Message("Generating AI use-cases...", 0, 0),
                                                 "_generate_use_cases", st.company))]
      [] st.phase = 4 ->
           IF st.idx <= Length(st.use_cases)
             THEN [st EXCEPT !.idx = st.idx + 1,
                             !.events = Append(@, Event(Message("Searching resources for use-case",
                                                                st.idx, Length(st.use_cases)),
                                                        "_search_resources",
                                                        SearchQuery(ElementAt(st.use_cases, st.idx))))]
             ELSE [st EXCEPT !.done = TRUE]

\* two calls of execute_plan, on plan p and on plan q, whose collaborators
\* hand back the same answers
TwinStart(p, q, answers) ==
    [first |-> ExecutionStart(p), second |-> ExecutionStart(q), answers |-> answers]

\* no pair of calls is being followed
TwinIdle ==
    [first |-> [ExecutionStart(EmptyDict) EXCEPT !.done = TRUE],
     second |-> [ExecutionStart(EmptyDict) EXCEPT !.done = TRUE],
     answers |-> [info |-> Ok(<<>>), llm |-> Raise("GenerationError"),
                  gen |-> [kind |-> "error"]]]

----------------------------------------------------------------------------
(* The collaborators' answers the run can meet *)

Companies == {<<"Acme", " ", "Corp">>}

\* the backends that yield no hit during a run: none, one, or all four
Envs == {{}, BackendKeys} \cup {{b} : b \in BackendKeys}

LongText == <<"Acme", " ", "builds", " ", "reusable", " ", "rockets.">>

\* generate_text: a text, or an exception
TextOutcomes == {Ok(LongText), Raise("GenerationError")}

InfoItem == [title |-> <<"Acme">>, body |-> <<"Rockets">>, url |-> <<"http://acme.example">>]

\* DuckDuckGoTool.search_company_info: a list (the tool catches its errors)
InfoOutcomes == {Ok(<<>>), Ok(<<InfoItem>>)}

Article == [title |-> <<"Acme", " ", "raises">>, description |-> <<"Series", " ", "B">>,
            published_at |-> <<"2024-01-01">>]

\* the news sources of phase 2: primary articles, funding hits, news hits
NewsSources ==
    {[articles |-> <<Article>>, funding |-> <<>>, news |-> <<>>],
     [articles |-> <<>>, funding |-> <<InfoItem>>, news |-> <<InfoItem>>],
     [articles |-> <<>>, funding |-> <<>>, news |-> <<>>]}

\* generate_structured_output in create_plan
PlanOutcomes ==
    {GenError,
     JDict([company |-> <<"Other">>, steps |-> <<Step(1, "search_company_info", <<"LLM">>)>>]),
     JDict([steps |-> <<Step(1, "search_company_info", <<"LLM">>)>>]),
     JList(<<>>),
     JScalar}

NameAt(i) == <<"Use", " ", "case", " ", Digits[i]>>
DescriptionAt(i) == <<"Description ", Digits[i]>>
Keywords == <<"demand", " ", "forecasting", " ", "xgboost", " ", "retail">>

\* the shapes an entry of the generated array can have
EntryShapes == {"full", "no_keywords", "no_use_case", "no_description",
                "empty_keywords", "not_a_dict"}

EntryAt(i, shape) ==
    CASE shape = "full" ->
           JDict([use_case |-> NameAt(i), description |-> DescriptionAt(i),
                  search_keywords |-> Keywords])
      [] shape = "no_keywords" ->
           JDict([use_case |-> NameAt(i), description |-> DescriptionAt(i)])
      [] shape = "no_use_case" ->
           JDict([description |-> DescriptionAt(i), search_keywords |-> Keywords])
      [] shape = "no_description" ->
           JDict([use_case |-> NameAt(i), search_keywords |-> Keywords])
      [] shape = "empty_keywords" ->
           JDict([use_case |-> NameAt(i), description |-> DescriptionAt(i),
                  search_keywords |-> <<>>])
      [] shape = "not_a_dict" -> JStr(<<"t", "e", "x", "t">>)

\* the array of n entries, all full but entry p (if any), which has `shape`
EntryList(n, p, shape) ==
    [i \in 1..n |-> IF i = p THEN EntryAt(i, shape) ELSE EntryAt(i, "full")]

\* generated arrays: up to MaxGenLen entries of which at most one is not well
\* formed, and arrays as long as, and longer than, the cap of 10
GenLists ==
    {EntryList(n, p, shape) : n \in 0..MaxGenLen, p \in 0..MaxGenLen, shape \in EntryShapes}
    \cup {EntryList(n, 0, "full") : n \in MaxUseCases..(MaxUseCases + MaxOverCap)}

\* generate_structured_output in _generate_use_cases
GenOutcomes ==
    {GenError, JScalar, JStr(<<"n", "o">>), JDict([note |-> <<"none">>])}
    \cup {JList(l) : l \in GenLists}
    \cup {JDict([use_cases |-> v]) :
            v \in {JScalar, JDict(EmptyDict), JStr(<<>>), JStr(<<"a", "b">>),
                   JList(<<>>), JList(EntryList(1, 0, "full")),
                   JList(EntryList(MaxUseCases + MaxOverCap, 0, "full"))}}

----------------------------------------------------------------------------
(* verify_and_finalize, statement by statement *)

VerifierIdle ==
    /\ v_pc = "idle"
    /\ v_raw = EmptyDict
    /\ v_results = EmptyDict
    /\ v_issues = <<>>
    /\ v_final = EmptyDict

\* the call verify_and_finalize(results)
VerifierStart(results) ==
    /\ v_pc = "check"
    /\ v_raw = results
    /\ v_results = results
    /\ v_issues = <<>>
    /\ v_final = EmptyDict

\* issues = self._check_completeness(results)
VCheck ==
    /\ v_pc = "check"
    /\ LET r == check_completeness(v_results)
       IN  IF r.raised
             THEN v_pc' = "raised" /\ UNCHANGED v_issues
             ELSE /\ v_issues' = r.value
                  /\ v_pc' = IF Truthy(r.value) THEN "fix" ELSE "normalize"
    /\ UNCHANGED <<v_raw, v_results, v_final>>

\* if issues: results = self._fix_issues(results, issues)
VFix ==
    /\ v_pc = "fix"
    /\ LET r == fix_issues(v_results, v_issues)
       IN  IF r.raised
             THEN v_pc' = "raised" /\ UNCHANGED v_results
             ELSE v_results' = r.value /\ v_pc' = "normalize"
    /\ UNCHANGED <<v_raw, v_issues, v_final>>

\* normalized = self._normalize_output(results); return normalized
VNormalize ==
    /\ v_pc = "normalize"
    /\ LET r == normalize_output(v_results)
       IN  IF r.raised
             THEN v_pc' = "raised" /\ UNCHANGED v_final
             ELSE v_final' = r.value /\ v_pc' = "done"
    /\ UNCHANGED <<v_raw, v_results, v_issues>>

VerifierNext == VCheck \/ VFix \/ VNormalize

\* no analysis run is in progress
RunIdleButAdapter ==
    /\ pc = "idle"
    /\ a_company = <<>>
    /\ env = {}
    /\ a_plan = EmptyDict
    /\ e_info = <<>>
    /\ e_results = EmptyDict
    /\ e_generated = NotGenerated
    /\ e_use_cases = JList(<<>>)
    /\ e_idx = 0
    /\ e_query = <<>>
    /\ e_resources = EmptyDict
    /\ e_futures = EmptyDict
    /\ e_running = {}
    /\ progress = <<>>

RunIdle == RunIdleButAdapter /\ ad = AdapterIdle /\ pl = PlannerIdle /\ nw = NewsIdle /\ sm = SummaryIdle /\ rd = RoundIdle /\ tw = TwinIdle

InitVerifier == RunIdle /\ \E raw \in RawResults(MaxRawUseCases) : VerifierStart(raw)

NextVerifier == VerifierNext /\ UNCHANGED runVars

\* the verifier called on its own with any incomplete result
SpecVerifier == InitVerifier /\ [][NextVerifier]_vars

----------------------------------------------------------------------------
(* analyze_company: create_plan, execute_plan phase by phase, then          *)
(* verify_and_finalize                                                      *)

\* self._update_progress(message)
Notify(message) == progress' = Append(progress, message)

\* the element of use_cases the loop is at
CurrentUseCase == ElementAt(e_use_cases, e_idx)

\* plan = planner.create_plan(company_name)
CreatePlan ==
    /\ pc = "create_plan"
    /\ \E out \in PlanOutcomes : a_plan' = create_plan(a_company, out)
    /\ pc' = "execute_plan"
    /\ UNCHANGED <<a_company, env, ad, pl, nw, sm, rd, tw, e_info, e_results, e_generated, e_use_cases, e_idx, e_query,
                   e_resources, e_futures, e_running, progress>>
    /\ UNCHANGED verVars

\* execute_plan, lines 56-62: company_name and the empty results dict
ExecBegin ==
    /\ pc = "execute_plan"
    /\ e_results' = [company |-> Get(a_plan, "company", <<>>),
                     company_summary |-> <<>>,
                     news_summary |-> <<>>,
                     ai_use_cases |-> <<>>]
    /\ pc' = "search_info"
    /\ UNCHANGED <<a_company, env, ad, pl, nw, sm, rd, tw, a_plan, e_info, e_generated, e_use_cases, e_idx, e_query,
                   e_resources, e_futures, e_running, progress>>
    /\ UNCHANGED verVars

\* phase 1, lines 65-66
ExecSearchInfo ==
    /\ pc = "search_info"
    /\ Notify(Message("Searching for company information...", 0, 0))
    /\ \E outcome \in InfoOutcomes : e_info' = search_company_info(outcome)
    /\ pc' = "news"
    /\ UNCHANGED <<a_company, env, ad, pl, nw, sm, rd, tw, a_plan, e_results, e_generated, e_use_cases, e_idx, e_query,
                   e_resources, e_futures, e_running>>
    /\ UNCHANGED verVars

\* phase 2, lines 69-70
ExecNews ==
    /\ pc = "news"
    /\ Notify(Message("Analyzing recent news & funding...", 0, 0))
    /\ \E src \in NewsSources, llm \in TextOutcomes :
          e_results' = [e_results EXCEPT !["news_summary"] =
              fetch_and_summarize_news(e_results["company"], src.articles, src.funding,
                                       src.news, llm).summary]
    /\ pc' = "summary"
    /\ UNCHANGED <<a_company, env, ad, pl, nw, sm, rd, tw, a_plan, e_info, e_generated, e_use_cases, e_idx, e_query,
                   e_resources, e_futures, e_running>>
    /\ UNCHANGED verVars

\* phase 3, lines 73-74
ExecSummary ==
    /\ pc = "summary"
    /\ Notify(Message("Generating company summary...", 0, 0))
    /\ \E llm \in TextOutcomes :
          e_results' = [e_results EXCEPT !["company_summary"] =
              summarize_company(e_results["company"], e_info, llm)]
    /\ pc' = "use_cases"
    /\ UNCHANGED <<a_company, env, ad, pl, nw, sm, rd, tw, a_plan, e_info, e_generated, e_use_cases, e_idx, e_query,
                   e_resources, e_futures, e_running>>
    /\ UNCHANGED verVars

\* phase 4, lines 77-78
ExecUseCases ==
    /\ pc = "use_cases"
    /\ Notify(Message("Generating AI use-cases...", 0, 0))
    /\ \E out \in GenOutcomes :
          /\ e_generated' = out
          /\ e_use_cases' = generate_use_cases(e_results["company"], out)
    /\ e_idx' = 1
    /\ pc' = "loop"
    /\ UNCHANGED <<a_company, env, ad, pl, nw, sm, rd, tw, a_plan, e_info, e_results, e_query,
                   e_resources, e_futures, e_running>>
    /\ UNCHANGED verVars

\* mutant: the four tasks are submitted whatever the query
ExecLoop_DispatchAlways ==
    /\ pc = "loop"
    /\ e_idx <= Length(e_use_cases)
    /\ Notify(Message("Searching resources for use-case", e_idx, Length(e_use_cases)))
    /\ e_query' = SearchQuery(CurrentUseCase)
    /\ e_resources' = EmptyResources
    /\ e_futures' = [b \in BackendKeys |->
                        TaskResult(b, SearchQuery(CurrentUseCase), env)]
    /\ e_running' = BackendKeys
    /\ pc' = "fan_out"
    /\ UNCHANGED <<a_company, env, ad, pl, nw, sm, rd, tw, a_plan, e_info, e_results, e_generated, e_use_cases, e_idx>>
    /\ UNCHANGED verVars

\* mutant: only the first use case of the run is announced
ExecLoop_AnnounceFirstOnly ==
    /\ pc = "loop"
    /\ e_idx <= Length(e_use_cases)
    /\ IF e_idx = 1
         THEN Notify(Message("Searching resources for use-case", e_idx, Length(e_use_cases)))
         ELSE UNCHANGED progress
    /\ e_query' = SearchQuery(CurrentUseCase)
    /\ e_resources' = EmptyResources
    /\ IF Truthy(SearchQuery(CurrentUseCase))
         THEN /\ e_futures' = [b \in BackendKeys |->
                                  TaskResult(b, SearchQuery(CurrentUseCase), env)]
              /\ e_running' = BackendKeys
              /\ pc' = "fan_out"
         ELSE /\ e_futures' = EmptyDict
              /\ e_running' = {}
              /\ pc' = "append"
    /\ UNCHANGED <<a_company, env, ad, pl, nw, sm, rd, tw, a_plan, e_info, e_results, e_generated, e_use_cases, e_idx>>
    /\ UNCHANGED verVars

\* phase 5, lines 81-83 and _search_resources up to the submission of the
\* four tasks (lines 297-352); an empty query returns the empty dict at once
ExecLoop ==
    /\ pc = "loop"
    /\ e_idx <= Length(e_use_cases)
    /\ Notify(Message("Searching resources for use-case", e_idx, Length(e_use_cases)))
    /\ e_query' = SearchQuery(CurrentUseCase)
    /\ e_resources' = EmptyResources
    /\ IF Truthy(SearchQuery(CurrentUseCase))
         THEN /\ e_futures' = [b \in BackendKeys |->
                                  TaskResult(b, SearchQuery(CurrentUseCase), env)]
              /\ e_running' = BackendKeys
              /\ pc' = "fan_out"
         ELSE /\ e_futures' = EmptyDict
              /\ e_running' = {}
              /\ pc' = "append"
    /\ UNCHANGED <<a_company, env, ad, pl, nw, sm, rd, tw, a_plan, e_info, e_results, e_generated, e_use_cases, e_idx>>
    /\ UNCHANGED verVars

\* mutant: each completion rebinds `resources` to a fresh dict (lost update)
TaskComplete_FreshDict(b) ==
    /\ pc = "fan_out"
    /\ b \in e_running
    /\ e_resources' = Put(EmptyResources, b, e_futures[b])
    /\ e_running' = e_running \ {b}
    /\ pc' = IF e_running = {b} THEN "append" ELSE "fan_out"
    /\ UNCHANGED <<a_company, env, ad, pl, nw, sm, rd, tw, a_plan, e_info, e_results, e_generated, e_use_cases, e_idx,
                   e_query, e_futures, progress>>
    /\ UNCHANGED verVars

\* mutant: the orchestrator moves on after the first completion
TaskComplete_FirstCompleted(b) ==
    /\ pc = "fan_out"
    /\ b \in e_running
    /\ e_resources' = Put(e_resources, b, e_futures[b])
    /\ e_running' = e_running \ {b}
    /\ pc' = "append"
    /\ UNCHANGED <<a_company, env, ad, pl, nw, sm, rd, tw, a_plan, e_info, e_results, e_generated, e_use_cases, e_idx,
                   e_query, e_futures, progress>>
    /\ UNCHANGED verVars

\* one task of the round completes and as_completed stores its result under
\* its key (lines 354-357); the `with` block ends when all four have
TaskComplete(b) ==
    /\ pc = "fan_out"
    /\ b \in e_running
    /\ e_resources' = Put(e_resources, b, e_futures[b])
    /\ e_running' = e_running \ {b}
    /\ pc' = IF e_running = {b} THEN "append" ELSE "fan_out"
    /\ UNCHANGED <<a_company, env, ad, pl, nw, sm, rd, tw, a_plan, e_info, e_results, e_generated, e_use_cases, e_idx,
                   e_query, e_futures, progress>>
    /\ UNCHANGED verVars

\* lines 86-93: the use case's entry is appended, or the statement raises and
\* execute_plan ends with the exception (analyze_company reports the error)
ExecAppend ==
    /\ pc = "append"
    /\ LET r == UseCaseResult(CurrentUseCase, e_resources)
       IN  IF r.raised
             THEN pc' = "failed" /\ UNCHANGED <<e_results, e_idx>>
             ELSE /\ e_results' = [e_results EXCEPT !["ai_use_cases"] = Append(@, r.value)]
                  /\ e_idx' = e_idx + 1
                  /\ pc' = "loop"
    /\ UNCHANGED <<a_company, env, ad, pl, nw, sm, rd, tw, a_plan, e_info, e_generated, e_use_cases, e_query,
                   e_resources, e_futures, e_running, progress>>
    /\ UNCHANGED verVars

\* line 95 `return results`, and main.py:188 verifier.verify_and_finalize(results)
ExecReturn ==
    /\ pc = "loop"
    /\ e_idx > Length(e_use_cases)
    /\ pc' = "verify"
    /\ v_pc' = "check"
    /\ v_raw' = e_results
    /\ v_results' = e_results
    /\ v_issues' = <<>>
    /\ v_final' = EmptyDict
    /\ UNCHANGED <<a_company, env, ad, pl, nw, sm, rd, tw, a_plan, e_info, e_results, e_generated, e_use_cases, e_idx,
                   e_query, e_resources, e_futures, e_running, progress>>

\* a statement of verify_and_finalize; `results` of analyze_company is the
\* object the verifier repairs in place
RunVerifier ==
    /\ pc = "verify"
    /\ VerifierNext
    /\ e_results' = v_results'
    /\ UNCHANGED <<pc, a_company, env, ad, pl, nw, sm, rd, tw, a_plan, e_info, e_generated, e_use_cases, e_idx, e_query,
                   e_resources, e_futures, e_running, progress>>

\* main.py:192  st.session_state.results = final_results, or main.py:196 the
\* except clause when verify_and_finalize raised
Finish ==
    /\ pc = "verify"
    /\ v_pc \in {"done", "raised"}
    /\ pc' = IF v_pc = "done" THEN "done" ELSE "verify_raised"
    /\ UNCHANGED <<a_company, env, ad, pl, nw, sm, rd, tw, a_plan, e_info, e_results, e_generated, e_use_cases, e_idx,
                   e_query, e_resources, e_futures, e_running, progress>>
    /\ UNCHANGED verVars

Init ==
    /\ pc = "create_plan"
    /\ a_company \in Companies
    /\ env \in Envs
    /\ ad = AdapterIdle
    /\ pl = PlannerIdle
    /\ nw = NewsIdle
    /\ sm = SummaryIdle
    /\ rd = RoundIdle
    /\ tw = TwinIdle
    /\ a_plan = EmptyDict
    /\ e_info = <<>>
    /\ e_results = EmptyDict
    /\ e_generated = NotGenerated
    /\ e_use_cases = JList(<<>>)
    /\ e_idx = 0
    /\ e_query = <<>>
    /\ e_resources = EmptyDict
    /\ e_futures = EmptyDict
    /\ e_running = {}
    /\ progress = <<>>
    /\ VerifierIdle

Next ==
    \/ CreatePlan
    \/ ExecBegin
    \/ ExecSearchInfo
    \/ ExecNews
    \/ ExecSummary
    \/ ExecUseCases
    \/ ExecLoop
    \/ \E b \in BackendKeys : TaskComplete(b)
    \/ ExecAppend
    \/ ExecReturn
    \/ RunVerifier
    \/ Finish

\* the run has ended: with a result, or with the error analyze_company reports
Terminated == pc \in {"done", "failed", "verify_raised"}

\* one analysis run
Spec == Init /\ [][Next]_vars

\* one analysis run that is scheduled until it ends: the orchestrator's
\* thread and the pool's worker threads keep running
FairSpec == Spec /\ WF_vars(Next)

----------------------------------------------------------------------------
(* One call of an adapter's search_use_case, request by request *)

\* queries of 1 to MaxQueryWords words
QueryWords == <<"demand", "forecasting", "xgboost", "retail", "prices", "weekly">>
Queries == {Join(Take(QueryWords, n)) : n \in 1..MaxQueryWords}

\* the numbers of hits a successful request can yield
ResponseSizes == {0, 1, MaxResults}

\* the request of the attempt in progress succeeds with n hits
AttemptSucceeds(n) ==
    /\ ~ad.done
    /\ ad' = AdapterStep(ad, Success(n))

\* the request of the attempt in progress raises (network error, HTTP error
\* status, malformed response)
AttemptFails ==
    /\ ~ad.done
    /\ ad' = AdapterStep(ad, Failure)

AdapterNext == AttemptFails \/ \E n \in ResponseSizes : AttemptSucceeds(n)

InitAdapter ==
    /\ RunIdleButAdapter
    /\ VerifierIdle
    /\ pl = PlannerIdle
    /\ nw = NewsIdle
    /\ sm = SummaryIdle
    /\ rd = RoundIdle
    /\ tw = TwinIdle
    /\ \E b \in BackendKeys, q \in Queries : ad = AdapterStart(b, q)

NextAdapter ==
    AdapterNext /\ UNCHANGED <<pc, a_company, env, pl, nw, sm, rd, tw, a_plan, e_info, e_results, e_generated,
                               e_use_cases, e_idx, e_query, e_resources, e_futures, e_running,
                               progress>> /\ UNCHANGED verVars

\* an adapter called on its own; its thread keeps running until it returns
SpecAdapter == InitAdapter /\ [][NextAdapter]_vars /\ WF_vars(NextAdapter)

\* an analysis run, or an adapter call followed request by request, each
\* scheduled until it ends
InitTermination == Init \/ InitAdapter
NextTermination == Next \/ NextAdapter
SpecTermination ==
    InitTermination /\ [][NextTermination]_vars /\ WF_vars(NextTermination)

----------------------------------------------------------------------------
(* One call of create_plan, statement by statement *)

PlannerCompanies == {<<"Acme", " ", "Corp">>, <<"Globex">>, <<"Initech">>}

\* the step lists a generated plan can carry
PlanSteps ==
    {<<>>,
     <<Step(1, "search_company_info", <<"LLM">>)>>,
     get_default_plan(<<>>).steps}

\* generate_structured_output in create_plan: an error, a value that is not
\* an object, an object with or without company and with or without steps
PlannerOutcomes ==
    {GenError, JScalar, JStr(<<"n", "o">>), JList(<<>>),
     JList(<<JDict([company |-> <<"Other">>])>>), JDict(EmptyDict)}
    \cup {JDict([steps |-> st]) : st \in PlanSteps}
    \cup {JDict([company |-> c]) : c \in PlannerCompanies \cup {<<"Other">>, <<>>}}
    \cup {JDict([company |-> c, steps |-> st]) :
            c \in PlannerCompanies \cup {<<"Other">>, <<>>}, st \in PlanSteps}

\* planner_agent.py:79  plan = self.llm.generate_structured_output(...)
PlanGenerate ==
    /\ pl.pc = "generate"
    /\ \E out \in PlannerOutcomes : pl' = [pl EXCEPT !.out = out, !.pc = "return"]

\* planner_agent.py:82-89  the assignment and the return, or the except clause
PlanReturn ==
    /\ pl.pc = "return"
    /\ pl' = [pl EXCEPT !.plan = create_plan(pl.company, pl.out), !.pc = "done"]

InitPlanner ==
    /\ RunIdleButAdapter
    /\ VerifierIdle
    /\ ad = AdapterIdle
    /\ nw = NewsIdle
    /\ sm = SummaryIdle
    /\ rd = RoundIdle
    /\ tw = TwinIdle
    /\ \E c \in PlannerCompanies : pl = PlannerStart(c)

NextPlanner ==
    (PlanGenerate \/ PlanReturn)
    /\ UNCHANGED <<pc, a_company, env, ad, nw, sm, rd, tw, a_plan, e_info, e_results, e_generated,
                   e_use_cases, e_idx, e_query, e_resources, e_futures, e_running,
                   progress>>
    /\ UNCHANGED verVars

\* create_plan called on its own
SpecPlanner == InitPlanner /\ [][NextPlanner]_vars

----------------------------------------------------------------------------
(* One call of _fetch_and_summarize_news, statement by statement *)

NewsCompanies == {<<"Acme">>, <<"Acme", " ", "Corp">>, <<"Globex">>}

\* the i-th article of NewsTool.search_company_news
ArticleAt(i) ==
    [title |-> <<"Article", " ", Digits[i]>>, description |-> <<"Series", " ", "B">>,
     published_at |-> <<"2024-01-01">>]

\* NewsTool.search_company_news: a list of articles, None after an error
PrimaryOutcomes ==
    {[kind |-> "none", items |-> <<>>]}
    \cup {[kind |-> "list", items |-> [i \in 1..n |-> ArticleAt(i)]] :
            n \in {0, 1, ArticleCap, ArticleCap + 1}}

\* the i-th result of the fallback search number `which`
ResultAt(which, i) ==
    [title |-> <<IF which = 1 THEN "Funding" ELSE "News", " ", Digits[i]>>,
     body |-> <<"Text">>, url |-> <<"http://example.org/", Digits[i]>>]

\* DuckDuckGoTool.search: a list of at most max_results results (the tool
\* catches its own errors and then returns [])
FallbackOutcomes(which) ==
    {Ok([i \in 1..n |-> ResultAt(which, i)]) :
        n \in {0, 1, FallbackCap, FallbackCap + 1, MaxResults}}

NewsPrimary ==
    /\ nw.pc = "primary"
    /\ \E articles \in PrimaryOutcomes : nw' = AfterPrimary(nw, articles)

NewsFallback(which) ==
    /\ nw.pc = IF which = 1 THEN "fallback_1" ELSE "fallback_2"
    /\ \E outcome \in FallbackOutcomes(which) : nw' = AfterFallback(nw, which, outcome)

NewsCheck ==
    /\ nw.pc = "check"
    /\ nw' = AfterCheck(nw)

NewsSummarize ==
    /\ nw.pc = "summarize"
    /\ \E llm \in TextOutcomes : nw' = AfterSummarize(nw, llm)

InitNews ==
    /\ RunIdleButAdapter
    /\ VerifierIdle
    /\ ad = AdapterIdle
    /\ pl = PlannerIdle
    /\ sm = SummaryIdle
    /\ rd = RoundIdle
    /\ tw = TwinIdle
    /\ \E c \in NewsCompanies : nw = NewsStart(c)

NextNews ==
    (NewsPrimary \/ (\E which \in {1, 2} : NewsFallback(which)) \/ NewsCheck \/ NewsSummarize)
    /\ UNCHANGED <<pc, a_company, env, ad, pl, sm, rd, tw, a_plan, e_info, e_results, e_generated,
                   e_use_cases, e_idx, e_query, e_resources, e_futures, e_running,
                   progress>>
    /\ UNCHANGED verVars

\* _fetch_and_summarize_news called on its own
SpecNews == InitNews /\ [][NextNews]_vars

----------------------------------------------------------------------------
(* _summarize_company followed by the completeness check (SpecSummary) *)

SummaryCompanies ==
    {<<>>, <<"X">>, <<"Acme">>, <<"Acme", " ", "Corp">>, <<"Globex">>,
     <<"Initech", " ", "Ltd">>}

\* generate_text in _summarize_company: a text of any length (the client
\* strips it, it may be empty), or an exception
SummaryOutcomes == {Ok(LongText), Ok(<<"Rockets.">>), Ok(<<>>), Raise("GenerationError")}

SummaryGenerate ==
    /\ sm.pc = "generate"
    /\ \E llm \in SummaryOutcomes : sm' = AfterGenerate(sm, llm)

SummaryCheck ==
    /\ sm.pc = "check"
    /\ sm' = AfterCompleteness(sm)

InitSummary ==
    /\ RunIdleButAdapter
    /\ VerifierIdle
    /\ ad = AdapterIdle
    /\ pl = PlannerIdle
    /\ nw = NewsIdle
    /\ rd = RoundIdle
    /\ tw = TwinIdle
    /\ \E c \in SummaryCompanies, info \in InfoOutcomes :
          sm = SummaryStart(c, search_company_info(info))

NextSummary ==
    (SummaryGenerate \/ SummaryCheck)
    /\ UNCHANGED <<pc, a_company, env, ad, pl, nw, rd, tw, a_plan, e_info, e_results, e_generated,
                   e_use_cases, e_idx, e_query, e_resources, e_futures, e_running,
                   progress>>
    /\ UNCHANGED verVars

\* _summarize_company called on its own, its result then checked
SpecSummary == InitSummary /\ [][NextSummary]_vars

----------------------------------------------------------------------------
(* one fan-out round whose tasks may raise (SpecRound) *)

\* what search_use_case of backend b can do for the round's query: return
\* what the adapter returns when its requests find a hit, find nothing or
\* fail, or raise (for instance on a query that is not a string)
TaskOutcomes(b) ==
    {Ok(RunAdapter(AdapterStart(b, Keywords), response).result) :
        response \in {Success(1), Success(0), Failure}}
    \cup {Raise("AttributeError")}

RoundTaskDone(b) ==
    /\ rd.pc = "running"
    /\ b \in rd.running
    /\ rd' = AfterCompleted(rd, b)

RoundReturn ==
    /\ rd.pc = "running"
    /\ rd.running = {}
    /\ rd' = AfterRound(rd)

InitRound ==
    /\ RunIdleButAdapter
    /\ VerifierIdle
    /\ ad = AdapterIdle
    /\ pl = PlannerIdle
    /\ nw = NewsIdle
    /\ sm = SummaryIdle
    /\ tw = TwinIdle
    /\ \E outcomes \in [BackendKeys -> UNION {TaskOutcomes(b) : b \in BackendKeys}] :
          /\ \A b \in BackendKeys : outcomes[b] \in TaskOutcomes(b)
          /\ rd = RoundStart(outcomes)

NextRound ==
    ((\E b \in BackendKeys : RoundTaskDone(b)) \/ RoundReturn)
    /\ UNCHANGED <<pc, a_company, env, ad, pl, nw, sm, tw, a_plan, e_info, e_results, e_generated,
                   e_use_cases, e_idx, e_query, e_resources, e_futures, e_running,
                   progress>>
    /\ UNCHANGED verVars

\* _search_resources called on its own
SpecRound == InitRound /\ [][NextRound]_vars

----------------------------------------------------------------------------
(* execute_plan on two plans (SpecTwin) *)

TwinCompanies == {<<"Acme", " ", "Corp">>, <<"Globex">>}

\* plans handed to execute_plan: with and without the company, with and
\* without steps, the steps those of the default plan, a single one or none
TwinPlans ==
    {EmptyDict}
    \cup {[company |-> c] : c \in TwinCompanies}
    \cup {[steps |-> st] : st \in PlanSteps}
    \cup {[company |-> c, steps |-> st] : c \in TwinCompanies, st \in PlanSteps}

\* what the collaborators hand back in a run: the web search, generate_text
\* in _summarize_company, generate_structured_output in _generate_use_cases
TwinAnswers ==
    [info : InfoOutcomes,
     llm : TextOutcomes,
     gen : {GenError}
           \cup {JList(EntryList(n, 0, "full")) : n \in 0..MaxGenLen}
           \cup {JList(EntryList(n, n, "no_keywords")) : n \in 1..MaxGenLen}]

\* both calls run their next phase
TwinStep ==
    /\ ~tw.first.done \/ ~tw.second.done
    /\ tw' = [tw EXCEPT
                 !.first = IF @.done THEN @ ELSE ExecutionStep(@, tw.answers),
                 !.second = IF @.done THEN @ ELSE ExecutionStep(@, tw.answers)]

InitTwin ==
    /\ RunIdleButAdapter
    /\ VerifierIdle
    /\ ad = AdapterIdle
    /\ pl = PlannerIdle
    /\ nw = NewsIdle
    /\ sm = SummaryIdle
    /\ rd = RoundIdle
    /\ \E p \in TwinPlans, q \in TwinPlans, answers \in TwinAnswers :
          tw = TwinStart(p, q, answers)

NextTwin ==
    TwinStep
    /\ UNCHANGED <<pc, a_company, env, ad, pl, nw, sm, rd, a_plan, e_info, e_results, e_generated,
                   e_use_cases, e_idx, e_query, e_resources, e_futures, e_running,
                   progress>>
    /\ UNCHANGED verVars

\* execute_plan called on two plans
SpecTwin == InitTwin /\ [][NextTwin]_vars

----------------------------------------------------------------------------
(* Claims about the verifier (SpecVerifier) *)

\* the use cases of a dict, [] when the key is missing
UseCasesOf(results) == Get(results, "ai_use_cases", <<>>)

\* C1: after verify_and_finalize every use case of the returned result has at
\* least one item under each of the four backend keys, whatever the raw
\* resource maps contained (a missing map and missing keys included).
C1_EveryBackendNonEmpty ==
    v_pc = "done" =>
        \A i \in 1..Len(v_final.ai_use_cases) : \A b \in BackendKeys :
            Len(v_final.ai_use_cases[i].resources[b]) >= 1

\* the canonical schema of section 6: the four top-level keys; every use case
\* has use_case, description and a resources map with exactly the four keys
SchemaValid(result) ==
    /\ DOMAIN result = {"company", "company_summary", "news_summary", "ai_use_cases"}
    /\ \A i \in 1..Len(result.ai_use_cases) :
          /\ {"use_case", "description", "resources"} \subseteq DOMAIN result.ai_use_cases[i]
          /\ DOMAIN result.ai_use_cases[i].resources = BackendKeys

\* C2: verify_and_finalize never raises, runs on to its return, and what it
\* returns conforms to the canonical schema, however incomplete the input.
C2_NeverRaisesSchemaValid ==
    /\ v_pc # "raised"
    /\ (v_pc \notin {"idle", "done"} => ENABLED VerifierNext)
    /\ (v_pc = "done" => SchemaValid(v_final))

\* C2 witness: the verifier returned for an input that lacks top-level keys
\* and has a use case without a resources map.
C2_Witness ==
    /\ v_pc = "done"
    /\ "company_summary" \notin DOMAIN v_raw
    /\ \E i \in 1..Len(UseCasesOf(v_raw)) : "resources" \notin DOMAIN v_raw.ai_use_cases[i]

\* a list that is empty or missing under backend b in a raw use case
RawListMissing(use_case, b) ==
    ~Truthy(Get(Get(use_case, "resources", EmptyDict), b, <<>>))

\* an item is the placeholder for (b, name): its title/name holds the word
\* Search and the name, its URL is the search link with spaces turned into +
IsPlaceholderFor(item, b, name) ==
    LET label == IF b \in {"arxiv", "kaggle"} THEN item.title ELSE item.name
    IN  /\ Contains(label, <<"Search">>)
        /\ Contains(label, name)
        /\ Contains(item.url, StrReplace(name, " ", "+"))
        /\ \E i \in 1..Len(item.url) : item.url[i] \in {"search?q=", "search/?query="}
        /\ " " \notin {item.url[i] : i \in 1..Len(item.url)}

\* C9: for each (use case, backend) pair whose list is empty or missing in the
\* raw result the returned result holds exactly one placeholder item for it.
C9_OnePlaceholderPerMissingPair ==
    v_pc = "done" =>
        \A i \in 1..Len(UseCasesOf(v_raw)) : \A b \in BackendKeys :
            RawListMissing(v_raw.ai_use_cases[i], b) =>
                /\ Len(v_final.ai_use_cases[i].resources[b]) = 1
                /\ IsPlaceholderFor(v_final.ai_use_cases[i].resources[b][1], b,
                                    Get(v_raw.ai_use_cases[i], "use_case", <<>>))

\* C10: normalization is idempotent: normalizing the normalized result
\* returns it unchanged.
C10_NormalizeIdempotent ==
    v_pc = "done" => normalize_output(v_final) = Ok(v_final)

\* C10 witness: a result was normalized whose items carried transient fields,
\* so the first normalization did change it.
C10_Witness ==
    /\ v_pc = "done"
    /\ v_final # v_results
    /\ \E i \in 1..Len(v_final.ai_use_cases) :
          Len(v_final.ai_use_cases[i].resources.arxiv) = 2

----------------------------------------------------------------------------
(* Claims about the analysis run (Spec) and the adapters (SpecTermination) *)

\* C3: no phase of execute_plan aborts the run, whatever the collaborators
\* hand back (arrays whose entries lack use_case or description and objects
\* whose use_cases value is not a list included): execute_plan never ends
\* with an exception.
C3_NoPhaseAborts == pc # "failed"

\* the most search attempts a call of search_use_case may make
AttemptBound(b) ==
    CASE b = "arxiv" -> 2
      [] b = "huggingface" -> 4
      [] b = "kaggle" -> 12
      [] b = "github" -> 6

\* the run, or the adapter call, has ended
Ended == Terminated \/ (pc = "idle" /\ ad.done)

\* an upper bound on the steps an analysis run still has to take: a use case
\* takes at most 6 (the loop head, four tasks, the append), the return of
\* execute_plan 1, the verifier at most 3, the hand-over of the result 1
RunStepsLeft ==
    CASE pc = "create_plan" -> 71
      [] pc = "execute_plan" -> 70
      [] pc = "search_info" -> 69
      [] pc = "news" -> 68
      [] pc = "summary" -> 67
      [] pc = "use_cases" -> 66
      [] pc = "loop" -> (Length(e_use_cases) - e_idx + 1) * 6 + 5
      [] pc = "fan_out" -> (Length(e_use_cases) - e_idx) * 6 + Cardinality(e_running) + 6
      [] pc = "append" -> (Length(e_use_cases) - e_idx) * 6 + 6
      [] pc = "verify" ->
           (CASE v_pc = "check" -> 4 [] v_pc = "fix" -> 3 [] v_pc = "normalize" -> 2
              [] OTHER -> 1)
      [] OTHER -> 0

\* the search attempts a call of search_use_case may still make
AttemptsLeft == AttemptBound(ad.backend) - Len(ad.log)

\* C4: every analysis run ends (with its result or with the error
\* analyze_company reports) and every call of an adapter's search_use_case
\* returns: each step, whatever the collaborators answer, lowers a natural
\* number, and before the end a step is always possible.  A call never
\* makes more than 2 (arXiv), 4 (Hugging Face), 12 (Kaggle), 6 (GitHub)
\* search attempts.
C4_TerminatesWithinAttemptBounds ==
    /\ [](Len(ad.log) <= AttemptBound(ad.backend))
    /\ [](RunStepsLeft >= 0)
    /\ [][RunStepsLeft' + AttemptsLeft' < RunStepsLeft + AttemptsLeft]_vars
    /\ [](Ended \/ ENABLED NextTermination)

\* C4 witness: a Kaggle call returned after all of its 12 attempts failed.
C4_Witness ==
    /\ ad.done
    /\ ad.backend = "kaggle"
    /\ Len(ad.log) = 12
    /\ \A i \in 1..12 : ~ad.log[i].ok

\* the names of the three fixed default use cases, in order
DefaultNames ==
    <<<<"Customer", " ", "Service", " ", "Chatbot">>,
      <<"Predictive", " ", "Analytics">>,
      <<"Process", " ", "Automation">>>>

\* value is a list of exactly the three default use cases, in order
IsDefaultList(value) ==
    /\ value.kind = "list"
    /\ Len(value.items) = 3
    /\ \A i \in 1..3 :
          /\ value.items[i].kind = "dict"
          /\ value.items[i].d["use_case"] = DefaultNames[i]

\* C5: when generate_structured_output fails during use-case generation,
\* _generate_use_cases returns exactly the three defaults (Customer Service
\* Chatbot, Predictive Analytics, Process Automation, in this order), and the
\* run ends with a result that has exactly these three use cases.
C5_DefaultsOnGenerationFailure ==
    e_generated = GenError =>
        /\ IsDefaultList(e_use_cases)
        /\ pc \notin {"failed", "verify_raised"}
        /\ pc = "done" =>
              /\ Len(v_final.ai_use_cases) = 3
              /\ \A i \in 1..3 : v_final.ai_use_cases[i].use_case = DefaultNames[i]

\* C5 witness: a run whose use-case generation failed has ended.
C5_Witness == e_generated = GenError /\ pc = "done"

\* the two accepted shapes: a bare array, an object with a use_cases array
AcceptedShape(out) ==
    \/ out.kind = "list"
    \/ /\ out.kind = "dict"
       /\ "use_cases" \in DOMAIN out.d
       /\ out.d["use_cases"].kind = "list"

\* C6: for every outcome of generate_structured_output that is neither a
\* bare array nor an object with a use_cases array (an object without
\* use_cases, an object whose use_cases is not an array, a scalar, an error)
\* _generate_use_cases returns the default list of three use cases.
C6_OtherShapesGiveDefault ==
    (e_generated # NotGenerated /\ ~AcceptedShape(e_generated)) =>
        IsDefaultList(e_use_cases)

\* C7: _generate_use_cases never returns more than 10 use cases, and the
\* result of the run never has more than 10 entries in ai_use_cases, whether
\* they come from a bare array, an object's use_cases or the default list.
C7_AtMostTenUseCases ==
    /\ Length(e_use_cases) <= 10
    /\ Len(UseCasesOf(e_results)) <= 10
    /\ pc = "done" => Len(v_final.ai_use_cases) <= 10

\* C7 witness: a run that generated a bare array of more than 10 entries
\* ended with exactly 10 use cases.
C7_Witness ==
    /\ pc = "done"
    /\ e_generated.kind = "list"
    /\ Len(e_generated.items) > 10
    /\ Len(v_final.ai_use_cases) = 10

\* C8: for every outcome of generate_structured_output (an empty array
\* included) _generate_use_cases produces at least 1 and at most 10 use
\* cases.
C8_BetweenOneAndTen ==
    e_generated # NotGenerated =>
        (Length(e_use_cases) >= 1 /\ Length(e_use_cases) <= 10)

----------------------------------------------------------------------------
(* Claims about normalization, the planner, the adapters and the fan-out *)

\* the canonical keys of a resource item of backend b
CanonicalKeys(b) ==
    CASE b = "arxiv" -> {"title", "url"}
      [] b = "huggingface" -> {"name", "url"}
      [] b = "kaggle" -> {"title", "url"}
      [] b = "github" -> {"name", "url", "stars"}

C12_RawNotMutated == UseCasesOf(v_results) = UseCasesOf(v_raw)

\* C13: the plan create_plan returns always has its company field equal to
\* the company name passed in, when the generated plan is used and when the
\* default plan is substituted.
C13_PlanCompanyIsInput ==
    pl.pc = "done" =>
        /\ "company" \in DOMAIN pl.plan
        /\ pl.plan["company"] = pl.company

\* C13 witness: create_plan returned a generated plan that named another
\* company.
C13_Witness ==
    /\ pl.pc = "done"
    /\ pl.out.kind = "dict"
    /\ "company" \in DOMAIN pl.out.d
    /\ pl.out.d["company"] # pl.company
    /\ "steps" \in DOMAIN pl.plan
    /\ pl.plan["steps"] # get_default_plan(pl.company).steps

\* the generated value is an object that has a company field
GeneratedPlanHasCompany == pl.out.kind = "dict" /\ "company" \in DOMAIN pl.out.d

\* C14: create_plan returns the default five-step plan whenever the
\* generated value fails to parse or is not an object, and also when it is an
\* object without a company field.
C14_DefaultPlanWithoutCompany ==
    (pl.pc = "done" /\ ~GeneratedPlanHasCompany) =>
        pl.plan = get_default_plan(pl.company)

\* a sequence of items none of which is a search-page link
RealHits(items) == \A i \in 1..Len(items) : ~HasSearchUrl(items[i])

\* the single search-page link an adapter hands back in place of hits
PlaceholderResult(items) == Len(items) = 1 /\ HasSearchUrl(items[1])

\* C15: no adapter's search_use_case raises to its caller, whatever
\* sequence of failing requests the backend produces: the call returns a
\* sequence that is empty, a placeholder, or real hits.
C15_AdapterNeverRaises ==
    /\ ~ad.raised
    /\ ad.done => (ad.result = <<>> \/ PlaceholderResult(ad.result) \/ RealHits(ad.result))

\* C15 witness: a Hugging Face call returned after every request of both of
\* its searches had failed.
C15_Witness ==
    /\ ad.done
    /\ ad.backend = "huggingface"
    /\ Len(ad.log) = 4
    /\ \A i \in 1..4 : ~ad.log[i].ok
    /\ ad.result = <<>>

\* C16: whatever the order in which the four tasks of a use case complete,
\* the resources map holds under each backend key the result of that
\* backend's own task (nothing until the task has completed): no result is
\* lost or stored under another key, and the finished map is the same for
\* every completion order.
C16_ResourcesOrderIndependent ==
    (pc \in {"fan_out", "append"} /\ DOMAIN e_futures = BackendKeys) =>
        /\ DOMAIN e_resources = BackendKeys
        /\ \A b \in BackendKeys :
              e_resources[b] = IF b \in e_running THEN <<>> ELSE e_futures[b]

\* C16 witness: the task submitted first is the only one still in flight and
\* the three submitted after it have stored their hits.
C16_Witness ==
    /\ pc = "fan_out"
    /\ e_running = {"arxiv"}
    /\ \A b \in BackendKeys \ {"arxiv"} : Len(e_resources[b]) >= 1
    /\ Len(e_futures["arxiv"]) >= 1

\* C17: fan-out rounds never overlap.  Adapter tasks are in flight only
\* inside a round (none during phases 1 to 4, none between rounds), at most
\* four at a time; tasks are started only when none is in flight, and the
\* loop does not move to another use case while one is in flight, so the
\* tasks in flight all belong to the same use case.
C17_RoundsNeverOverlap ==
    /\ [](pc # "fan_out" => e_running = {})
    /\ [](Cardinality(e_running) <= 4)
    /\ [][(e_running' \subseteq e_running) \/ (e_running = {})]_vars
    /\ [][(e_running # {}) => (e_idx' = e_idx /\ e_query' = e_query)]_vars

\* C17 witness: the round of the second use case has started, after the
\* first use case's entry was appended, and its four tasks are in flight.
C17_Witness ==
    /\ pc = "fan_out"
    /\ e_idx = 2
    /\ Cardinality(e_running) = 4
    /\ Len(UseCasesOf(e_results)) = 1

RECURSIVE QueriesIssued(_)
\* the queries of the requests made, in order, a query searched several
\* times in a row (retries, sub-searches) counted once
QueriesIssued(log) ==
    IF Len(log) = 0 THEN <<>>
    ELSE LET before == QueriesIssued(SubSeq(log, 1, Len(log) - 1))
             q == log[Len(log)].query
         IN  IF Len(before) > 0 /\ before[Len(before)] = q THEN before
             ELSE Append(before, q)

\* s is an initial segment of t
IsPrefix(s, t) == Len(s) <= Len(t) /\ SubSeq(t, 1, Len(s)) = s

\* the query of Scenario C and its two broadenings
ScenarioQuery == <<"demand", " ", "forecasting", " ", "xgboost", " ", "retail">>
ScenarioQueries ==
    <<ScenarioQuery,
      <<"demand", " ", "forecasting", " ", "xgboost">>,
      <<"demand", " ", "forecasting">>>>

\* every request made so far yielded no hit (zero items, or the search gave
\* up after its attempts failed)
NoHitSoFar == \A i \in 1..Len(ad.log) : ad.log[i].n = 0

\* C18: when the GitHub adapter gets zero hits for a query of four or more
\* words it searches, in order, the query, its first three words, its first
\* two words; for "demand forecasting xgboost retail" these are the full
\* query, "demand forecasting xgboost" and "demand forecasting", and the last
\* query issued is exactly "demand forecasting".
C18_GitHubBroadeningOrder ==
    (ad.backend = "github" /\ Len(Words(ad.query)) >= 4 /\ NoHitSoFar) =>
        LET expected == <<ad.query,
                          Join(Take(Words(ad.query), 3)),
                          Join(Take(Words(ad.query), 2))>>
        IN  /\ IsPrefix(QueriesIssued(ad.log), expected)
            /\ ad.done => QueriesIssued(ad.log) = expected
            /\ ad.query = ScenarioQuery =>
                  /\ IsPrefix(QueriesIssued(ad.log), ScenarioQueries)
                  /\ ad.done =>
                        /\ QueriesIssued(ad.log) = ScenarioQueries
                        /\ ad.log[Len(ad.log)].query = <<"demand", " ", "forecasting">>

\* C18 witness: the GitHub call for "demand forecasting xgboost retail"
\* returned after three searches that found nothing.
C18_Witness ==
    /\ ad.backend = "github"
    /\ ad.query = ScenarioQuery
    /\ ad.done
    /\ NoHitSoFar
    /\ Len(QueriesIssued(ad.log)) = 3
    /\ \E i \in 1..Len(ad.log) : ad.log[i].ok

\* q consists of the first 3 or the first 2 words of the original query, in
\* their order, and has fewer words than the original
StrictWordPrefix(q, original) ==
    \E n \in {2, 3} :
        /\ n < Len(Words(original))
        /\ Words(q) = SubSeq(Words(original), 1, n)
        /\ q = Join(Words(q))

\* C19: every broadened query the Kaggle and GitHub adapters issue is a
\* strict word-prefix of the original query (its first 3 or first 2 words in
\* their order, fewer words than the original): once the adapter has
\* broadened, no request carries the original query again, and every request
\* that does not carry the original query carries such a prefix.
C19_BroadenedQueryIsStrictPrefix ==
    ad.backend \in {"kaggle", "github"} =>
        /\ \A i \in 1..Len(ad.log) :
              \/ ad.log[i].query = ad.query /\ \A j \in 1..i : ad.log[j].query = ad.query
              \/ StrictWordPrefix(ad.log[i].query, ad.query)
        /\ (~ad.done /\ ad.level > 1) =>
              StrictWordPrefix(LevelQuery(ad.query, ad.level), ad.query)

\* C19 witness: a Kaggle call for a three-word query broadened to the first
\* two words.
C19_Witness ==
    /\ ad.backend = "kaggle"
    /\ Len(Words(ad.query)) = 3
    /\ ad.done
    /\ Len(QueriesIssued(ad.log)) = 2
    /\ Len(Words(ad.log[Len(ad.log)].query)) = 2

\* a request of the call that yielded real hits
RealHitsSeen == \E i \in 1..Len(ad.log) : ad.log[i].ok /\ ad.log[i].n >= 1

\* the broadening levels search_use_case has for a query
LevelsFor(query) ==
    IF Len(Words(query)) > 3 THEN 3 ELSE IF Len(Words(query)) > 2 THEN 2 ELSE 1

\* C20: in the Kaggle adapter a placeholder (an item whose URL is a
\* search-page link) never counts as a hit and never accompanies real hits:
\* when a request yielded real hits the call returns real hits only, also
\* when the other sub-search handed back a placeholder; when no request
\* yielded real hits the adapter broadens through all of its levels and
\* returns the placeholder for the original query.
C20_PlaceholderNeverCountsAsHit ==
    (ad.backend = "kaggle" /\ ad.done) =>
        IF RealHitsSeen
          THEN Len(ad.result) >= 1 /\ RealHits(ad.result)
          ELSE /\ Len(QueriesIssued(ad.log)) = LevelsFor(ad.query)
               /\ ad.result = get_placeholder_results(
                                  ad.query, <<"datasets", " ", "+", " ", "notebooks">>)

\* C20 witness: the datasets search gave up (placeholder), the notebooks
\* search of the same level found hits, and the call returned.
C20_Witness ==
    /\ ad.backend = "kaggle"
    /\ ad.done
    /\ Len(ad.log) = 3
    /\ ~ad.log[1].ok /\ ~ad.log[2].ok
    /\ ad.log[3].ok /\ ad.log[3].n >= 1
    /\ RealHits(ad.result)

----------------------------------------------------------------------------
(* Claims about the news resolver (SpecNews) *)

\* the call went through the fallback searches
FallbackTaken == nw.pc \in {"check", "summarize", "done"} /\ nw.source # "primary"

\* C21: when the primary news source yields no article, exactly two web
\* searches are issued, first "<company> funding rounds investors
\* crunchbase", then "<company> latest business news"; at most the first 3
\* results of each are kept, funding results first, so at most 6 results
\* reach the summarizer.
C21_TwoFallbackQueriesCapped ==
    LET expected == <<nw.company \o <<" ", "funding rounds investors crunchbase">>,
                      nw.company \o <<" ", "latest business news">>>>
    IN  /\ IsPrefix(nw.queries, expected)
        /\ nw.source = "primary" => nw.queries = <<>>
        /\ FallbackTaken =>
              /\ nw.queries = expected
              /\ Len(nw.collected) <= 6
              /\ \E f \in 0..3, g \in 0..3 :
                    nw.collected = [i \in 1..f |-> ResultAt(1, i)]
                                   \o [i \in 1..g |-> ResultAt(2, i)]

\* C21 witness: both fallback searches found more than 3 results and 6
\* results went to the summarizer.
C21_Witness ==
    /\ nw.pc = "done"
    /\ nw.source = "fallback"
    /\ Len(nw.collected) = 6
    /\ nw.llm_calls = 1

\* C22: when the primary source and both fallback searches yield nothing,
\* the call returns the no-data sentence and generate_text is not called.
C22_NoDataSentinelWithoutSummarizer ==
    /\ nw.collected = <<>> => nw.llm_calls = 0
    /\ (nw.pc = "done" /\ nw.collected = <<>> /\ ~nw.raised) =>
          /\ nw.summary = <<"No recent news or funding information available.">>
          /\ Len(nw.queries) = 2

\* C22 witness: the call returned after the primary source and both
\* searches came back empty.
C22_Witness ==
    /\ nw.pc = "done"
    /\ Len(nw.queries) = 2
    /\ nw.collected = <<>>
    /\ nw.llm_calls = 0

\* C23: when news text was collected (from the primary source or from the
\* fallback) and generate_text fails, the call returns the
\* error-generating-summary sentence: it does not raise and does not return
\* the collected text.
C23_ErrorSentinelOnGenerationFailure ==
    (nw.pc = "done" /\ nw.llm_raised) =>
        /\ nw.collected # <<>>
        /\ nw.source \in {"primary", "fallback"}
        /\ ~nw.raised
        /\ nw.summary = <<"Error generating news summary.">>

\* C23 witness: generate_text failed on text collected by the fallback.
C23_Witness ==
    /\ nw.pc = "done"
    /\ nw.llm_raised
    /\ nw.source = "fallback"
    /\ nw.llm_calls = 1

\* ---------------------------------------------------------------------------
\* the phases of execute_plan and its progress callback

\* the messages of phases 1-4, in the order of the code
PhaseMessages ==
    << Message("Searching for company information...", 0, 0),
       Message("Analyzing recent news & funding...", 0, 0),
       Message("Generating company summary...", 0, 0),
       Message("Generating AI use-cases...", 0, 0) >>

\* the phase a position of the run belongs to (0: before execute_plan's
\* first phase, 6: after execute_plan)
PhaseOf(at) ==
    CASE at \in {"create_plan", "execute_plan"} -> 0
      [] at = "search_info" -> 1
      [] at = "news" -> 2
      [] at = "summary" -> 3
      [] at = "use_cases" -> 4
      [] at \in {"loop", "fan_out", "append"} -> 5
      [] OTHER -> 6

\* how many use cases have had their fan-out announced so far
RoundsAnnounced ==
    CASE pc = "loop" -> e_idx - 1
      [] pc \in {"fan_out", "append", "failed"} -> e_idx
      [] OTHER -> Length(e_use_cases)

\* the callback invocations execute_plan has made when it stands at `pc`
ExpectedProgress ==
    IF PhaseOf(pc) <= 4
      THEN SubSeq(PhaseMessages, 1, PhaseOf(pc) - (IF PhaseOf(pc) = 0 THEN 0 ELSE 1))
      ELSE PhaseMessages \o
           [i \in 1..RoundsAnnounced |->
               Message("Searching resources for use-case", i, Length(e_use_cases))]

\* C24: execute_plan runs information search, news, summary, use-case
\* generation and the per-use-case fan-out in this order, one phase at a time;
\* the progress callback is invoked once before each of the first four phases
\* and once before each use case's fan-out, so that execute_plan has made
\* exactly 4 + n invocations when it returns n use cases' results.
C24_PhasesInOrderWithProgress ==
    /\ [](progress = ExpectedProgress)
    /\ [](pc \in {"verify", "done", "verify_raised"}
            => Len(progress) = 4 + Length(e_use_cases))
    /\ [][PhaseOf(pc') \in {PhaseOf(pc), PhaseOf(pc) + 1}]_vars
    /\ [][(pc' # pc /\ pc \in {"loop", "append"} /\ pc' \in {"loop", "fan_out", "append"})
            => e_running = {}]_vars

\* a run that returned from execute_plan with two use cases and six
\* callback invocations
C24_Witness ==
    /\ pc = "done"
    /\ Length(e_use_cases) = 2
    /\ Len(progress) = 6
    /\ progress[6].idx = 2

\* ---------------------------------------------------------------------------
\* the query of a use case and its dispatch

\* the query the claim resolves for a dict entry: search_keywords when the
\* key is present, otherwise the name
ResolvedQuery(d) ==
    IF "search_keywords" \in DOMAIN d THEN d["search_keywords"] ELSE d["use_case"]

\* the use case has been handed to _search_resources
RoundEntered == pc \in {"fan_out", "append"}

\* C25: for every use case the query is search_keywords when that key is
\* present and the name otherwise, and this one query is dispatched to all
\* four adapters, one task each, also when search_keywords is present but
\* empty.
C25_QueryDispatchedToAllFour ==
    (/\ RoundEntered
     /\ CurrentUseCase.kind = "dict"
     /\ DOMAIN CurrentUseCase.d \cap {"search_keywords", "use_case"} # {})
    => /\ e_query = ResolvedQuery(CurrentUseCase.d)
       /\ DOMAIN e_futures = BackendKeys
       /\ \A b \in BackendKeys : e_futures[b] = TaskResult(b, e_query, env)

\* ---------------------------------------------------------------------------
\* the use-case results of execute_plan

\* entry i of ai_use_cases is the result of generated use case i
EntryMatches(entry, use_case) ==
    /\ use_case.kind = "dict"
    /\ DOMAIN entry = {"use_case", "description", "search_keywords", "resources"}
    /\ entry["use_case"] = use_case.d["use_case"]
    /\ entry["description"] = use_case.d["description"]
    /\ entry["search_keywords"] = SearchQuery(use_case)
    /\ DOMAIN entry["resources"] = BackendKeys

\* ai_use_cases holds the results of the first n generated use cases, in order
ResultsOfFirst(ai_use_cases, n) ==
    /\ Len(ai_use_cases) = n
    /\ \A i \in 1..n : EntryMatches(ai_use_cases[i], ElementAt(e_use_cases, i))

\* C26: the ai_use_cases sequence execute_plan returns has exactly one entry
\* per generated use case, in the order of generation, each with the use
\* case's name and description, the resolved query as search_keywords and a
\* resources map whose keys are exactly the four backends; while the loop
\* runs the sequence holds the entries of the use cases completed so far.
C26_OneEntryPerUseCaseInOrder ==
    /\ pc \in {"verify", "done", "verify_raised"}
          => ResultsOfFirst(v_raw["ai_use_cases"], Length(e_use_cases))
    /\ pc \in {"loop", "fan_out", "append"}
          => ResultsOfFirst(e_results["ai_use_cases"],
                            e_idx - 1)

\* execute_plan returned two entries, the second for a use case generated
\* without search_keywords, whose query is its name
C26_Witness ==
    /\ pc = "verify"
    /\ v_pc = "check"
    /\ Len(v_raw["ai_use_cases"]) = 2
    /\ "search_keywords" \in DOMAIN ElementAt(e_use_cases, 1).d
    /\ "search_keywords" \notin DOMAIN ElementAt(e_use_cases, 2).d
    /\ v_raw["ai_use_cases"][2]["search_keywords"] = ElementAt(e_use_cases, 2).d["use_case"]
    /\ v_raw["ai_use_cases"][1]["use_case"] # v_raw["ai_use_cases"][2]["use_case"]

\* ---------------------------------------------------------------------------
\* what the adapters return (SpecAdapter)

\* the broadening levels search_use_case goes through for a query when no
\* level finds anything
ApplicableLevels(query) ==
    {1} \cup (IF Len(Words(query)) > 3 THEN {2} ELSE {})
        \cup (IF Len(Words(query)) > 2 THEN {3} ELSE {})

\* the search `sub` of level l has been made and its last request yielded
\* no item
LevelSearchEmpty(l, sub) ==
    \E i \in 1..Len(ad.log) :
        /\ ad.log[i].query = LevelQuery(ad.query, l)
        /\ ad.log[i].sub = sub
        /\ ad.log[i].n = 0
        /\ \A j \in (i + 1)..Len(ad.log) :
              ~(ad.log[j].query = ad.log[i].query /\ ad.log[j].sub = sub)

\* item is the search-page link for `query`
PlaceholderFor(item, query) ==
    /\ DOMAIN item = {"title", "url"}
    /\ item.url = <<"https://www.kaggle.com", "/", "search?q=">>
                      \o [i \in 1..Len(query) |-> IF query[i] = " " THEN "+" ELSE query[i]]
    /\ Len(item.title) > Len(query)
    /\ SubSeq(item.title, Len(item.title) - Len(query) + 1, Len(item.title)) = query

\* C27: the Kaggle adapter returns a placeholder only when every applicable
\* broadening level has been searched (datasets and notebooks) and none
\* yielded a real hit; the result is then exactly one item, the search-page
\* link of the original, unbroadened query.
C27_PlaceholderOnlyWhenExhausted ==
    (/\ ad.backend = "kaggle"
     /\ ad.done
     /\ \E i \in 1..Len(ad.result) : HasSearchUrl(ad.result[i]))
    => /\ \A i \in 1..Len(ad.log) : ad.log[i].n = 0
       /\ \A l \in ApplicableLevels(ad.query), sub \in {"datasets", "notebooks"} :
             LevelSearchEmpty(l, sub)
       /\ Len(ad.result) = 1
       /\ PlaceholderFor(ad.result[1], ad.query)

\* C27 witness: for a query of four words every request of the three levels
\* succeeded without a hit and the call returned the placeholder.
C27_Witness ==
    /\ ad.backend = "kaggle"
    /\ ad.done
    /\ Len(Words(ad.query)) = 4
    /\ Len(ad.log) = 6
    /\ \A i \in 1..6 : ad.log[i].ok
    /\ PlaceholderResult(ad.result)

\* the queries of the levels GitHub's search_use_case has for a query, in
\* order
GitHubLevelQueries(query) ==
    <<query>>
    \o (IF Len(Words(query)) > 3 THEN <<Join(Take(Words(query), 3))>> ELSE <<>>)
    \o (IF Len(Words(query)) > 2 THEN <<Join(Take(Words(query), 2))>> ELSE <<>>)

\* C28: the GitHub adapter returns the repositories of the first broadening
\* level (exact query, first 3 words, first 2 words) that yields at least
\* one and sends no request for a later level; it returns the empty
\* sequence only when every applicable level yielded none.
C28_GitHubFirstLevelWithHits ==
    ad.backend = "github" =>
        /\ \A i \in 1..(Len(ad.log) - 1) : ad.log[i].n = 0
        /\ IsPrefix(QueriesIssued(ad.log), GitHubLevelQueries(ad.query))
        /\ (Len(ad.log) > 0 /\ ad.log[Len(ad.log)].n >= 1) =>
              /\ ad.done
              /\ ad.result = Hits("github", "repositories", ad.log[Len(ad.log)].n)
        /\ (ad.done /\ ad.result = <<>>) =>
              /\ \A i \in 1..Len(ad.log) : ad.log[i].n = 0
              /\ QueriesIssued(ad.log) = GitHubLevelQueries(ad.query)

\* C28 witness: the exact query of four words found nothing, its first
\* three words found repositories, and the call returned them without
\* searching the first two words.
C28_Witness ==
    /\ ad.backend = "github"
    /\ ad.done
    /\ Len(Words(ad.query)) = 4
    /\ Len(QueriesIssued(ad.log)) = 2
    /\ ad.log[1].ok
    /\ Len(ad.result) = MaxResults

\* the request just made (the last entry of the log after the step)
LastRequest == ad'.log[Len(ad'.log)]

\* the step ended the search call that was in progress: the adapter returned
\* or went on to its next search
SearchEnded ==
    \/ ad'.done
    \/ ad'.attempt = 0 /\ <<ad'.level, ad'.sub>> # <<ad.level, ad.sub>>

\* the step ended the search call and the call handed back a value with
\* property IsValue, as far as the adapter's state shows it: the first of
\* two sub-searches is kept in `first`, arXiv returns what its one search
\* returned, GitHub returns a non-empty list at once
SearchReturned(IsValue(_)) ==
    /\ SearchEnded
    /\ ad.sub < Len(SubSearches(ad.backend)) =>
          /\ IsValue(ad'.first)
          /\ ~ad'.done /\ ad'.sub = ad.sub + 1 /\ ad'.level = ad.level
    /\ ad.backend = "arxiv" => ad'.done /\ IsValue(ad'.result)
    /\ ad.backend = "github" =>
          \/ ad'.done /\ IsValue(ad'.result)
          \/ ~ad'.done /\ IsValue(<<>>)

\* what a step of an adapter does according to the claim
AttemptStep ==
    /\ Len(ad'.log) = Len(ad.log) + 1
    /\ LastRequest.attempt = ad.attempt
    /\ LastRequest.attempt = 1 =>
          /\ Len(ad.log) >= 1
          /\ ~ad.log[Len(ad.log)].ok
          /\ ad.log[Len(ad.log)].attempt = 0
          /\ ad.log[Len(ad.log)].query = LastRequest.query
          /\ ad.log[Len(ad.log)].sub = LastRequest.sub
    /\ LastRequest.ok =>
          SearchReturned(LAMBDA v : v = Hits(ad.backend, LastRequest.sub, LastRequest.n))
    /\ (~LastRequest.ok /\ ad.attempt = 0) =>
          /\ ~SearchEnded
          /\ ad'.attempt = 1
          /\ <<ad'.level, ad'.sub, ad'.first>> = <<ad.level, ad.sub, ad.first>>
    /\ (~LastRequest.ok /\ ad.attempt = 1) =>
          SearchReturned(LAMBDA v : IF ad.backend = "kaggle"
                                      THEN PlaceholderResult(v) ELSE v = <<>>)

\* C29: a search call of an adapter on one query makes at most 2 attempts;
\* the second is made only when the first raised; an attempt that succeeds
\* ends the search and its items are returned, also when there are none;
\* after the second failed attempt the search returns its failure value, the
\* empty sequence, or a single placeholder in the Kaggle adapter.
C29_AtMostTwoAttemptsPerSearch ==
    /\ [](ad.attempt \in {0, 1})
    /\ [](\A i \in 1..Len(ad.log) : ad.log[i].attempt \in {0, 1})
    /\ [][AttemptStep]_vars

\* C29 witness: the first attempt of the arXiv search raised, the second
\* succeeded without items and the call returned the empty sequence.
C29_Witness ==
    /\ ad.backend = "arxiv"
    /\ ad.done
    /\ Len(ad.log) = 2
    /\ ~ad.log[1].ok
    /\ ad.log[2].ok
    /\ ad.log[2].n = 0
    /\ ad.result = <<>>

\* the requests of the Hugging Face call that belong to sub-search `sub`
RequestsOf(sub) == SelectSeq(ad.log, LAMBDA e : e.sub = sub)

\* how many items sub-search `sub` returned: those of its last request, none
\* when that request failed
ItemsReturned(sub) ==
    LET rs == RequestsOf(sub)
    IN  IF Len(rs) > 0 /\ rs[Len(rs)].ok THEN rs[Len(rs)].n ELSE 0

\* C30: the Hugging Face adapter runs the models search and then the
\* datasets search, the datasets search also when the models search failed,
\* and returns the models followed by the datasets, cut to max_results
\* items, so never more than max_results.
C30_HuggingFaceModelsThenDatasets ==
    ad.backend = "huggingface" =>
        /\ \A i \in 1..Len(ad.log), j \in 1..Len(ad.log) :
              (i < j /\ ad.log[i].sub = "datasets") => ad.log[j].sub = "datasets"
        /\ \A i \in 1..Len(ad.log) : ad.log[i].query = ad.query
        /\ ad.done =>
              LET m == ItemsReturned("models")
                  d == ItemsReturned("datasets")
                  all == [i \in 1..(m + d) |->
                             IF i <= m THEN HitItem("models", i) ELSE HFDatasetItem(i - m)]
              IN  /\ Len(RequestsOf("models")) >= 1
                  /\ Len(RequestsOf("datasets")) >= 1
                  /\ Len(ad.result) <= MaxResults
                  /\ Len(ad.result) = IF m + d < MaxResults THEN m + d ELSE MaxResults
                  /\ \A i \in 1..Len(ad.result) : ad.result[i] = all[i]

\* C30 witness: one model and max_results datasets were found and the call
\* returned the model followed by the first max_results - 1 datasets.
C30_Witness ==
    /\ ad.backend = "huggingface"
    /\ ad.done
    /\ ItemsReturned("models") = 1
    /\ ItemsReturned("datasets") = MaxResults
    /\ Len(ad.result) = MaxResults
    /\ ad.result[1].type = <<"model">>
    /\ ad.result[MaxResults].type = <<"dataset">>

\* ---------------------------------------------------------------------------
\* the company summary (SpecSummary)

\* the completeness check reported the summary
SummaryReported(issues) ==
    \E i \in 1..Len(issues) : issues[i] = <<0, "Missing or incomplete company summary">>

\* C31: when generate_text fails in _summarize_company the summary is the
\* sentence "<company> is a company in the technology/business sector.",
\* and this summary has at least 10 characters and is not reported by the
\* completeness check, whatever the company name.
C31_FallbackSummaryPassesCheck ==
    (sm.pc \in {"check", "done"} /\ sm.llm_raised) =>
        /\ sm.summary = sm.company \o <<" is a company in the technology/business sector.">>
        /\ StrLen(sm.summary) >= 10
        /\ sm.pc = "done" => ~SummaryReported(sm.issues)

\* C31 witness: generation failed for the empty company name and the check
\* reported only the missing use cases.
C31_Witness ==
    /\ sm.pc = "done"
    /\ sm.llm_raised
    /\ sm.company = <<>>
    /\ sm.issues = << <<0, "No AI use-cases generated">> >>

\* ---------------------------------------------------------------------------
\* a fan-out round with a raising task (SpecRound)

\* the backends whose search_use_case raises in this round
RaisingTasks == {b \in BackendKeys : rd.outcomes[b].raised}

\* C32: when a task of a fan-out round raises, _search_resources records
\* the empty sequence under that backend's key, every other key holds what
\* its own task returned, the round completes and the returned map has
\* exactly the four backend keys.
C32_RaisingTaskRecordedEmpty ==
    /\ rd.pc \in {"running", "returned"} => DOMAIN rd.resources = BackendKeys
    /\ rd.pc = "running" =>
          \A b \in BackendKeys \ rd.running :
              rd.resources[b] = IF b \in RaisingTasks THEN <<>> ELSE rd.outcomes[b].value
    /\ rd.pc = "returned" =>
          /\ rd.running = {}
          /\ DOMAIN rd.returned = BackendKeys
          /\ \A b \in RaisingTasks : rd.returned[b] = <<>>
          /\ \A b \in BackendKeys \ RaisingTasks : rd.returned[b] = rd.outcomes[b].value

\* C32 witness: the Hugging Face task raised, the three other tasks found
\* hits, and the round returned.
C32_Witness ==
    /\ rd.pc = "returned"
    /\ RaisingTasks = {"huggingface"}
    /\ rd.returned["huggingface"] = <<>>
    /\ \A b \in BackendKeys \ {"huggingface"} :
          Len(rd.returned[b]) >= 1 /\ RealHits(rd.returned[b])

\* ---------------------------------------------------------------------------
\* the shape of what the Kaggle adapter returns (SpecAdapter)

\* C33: search_use_case of the Kaggle adapter always returns a non-empty
\* sequence: between 1 and max_results real hits without a placeholder, or
\* exactly one placeholder; never the empty sequence and never a placeholder
\* next to real hits.
C33_KaggleResultNeverEmpty ==
    (ad.backend = "kaggle" /\ ad.done) =>
        /\ ad.result # <<>>
        /\ \/ /\ Len(ad.result) \in 1..MaxResults
              /\ \A i \in 1..Len(ad.result) : ~HasSearchUrl(ad.result[i])
           \/ /\ Len(ad.result) = 1
              /\ HasSearchUrl(ad.result[1])

\* C33 witness: datasets and notebooks were both found in full and the call
\* returned max_results real hits.
C33_Witness ==
    /\ ad.backend = "kaggle"
    /\ ad.done
    /\ Len(ad.log) = 2
    /\ ad.log[1].n = MaxResults
    /\ ad.log[2].n = MaxResults
    /\ Len(ad.result) = MaxResults
    /\ RealHits(ad.result)

\* ---------------------------------------------------------------------------
\* the number of broadening levels (SpecAdapter)

\* the first n words of the query of the call
FirstWords(n) == Join(SubSeq(Words(ad.query), 1, n))

\* C34: in the GitHub and the Kaggle adapter a query of 4 or more words can
\* be searched at three levels (exact, first 3 words, first 2 words), a query
\* of exactly 3 words at two (exact, first 2 words; the first-3-words level
\* is skipped), a query of 1 or 2 words at the exact level only; a call that
\* finds nothing goes through all of them.
C34_LevelsByWordCount ==
    ad.backend \in {"kaggle", "github"} =>
        LET w == Len(Words(ad.query))
            levels == IF w >= 4 THEN {1, 2, 3} ELSE IF w = 3 THEN {1, 3} ELSE {1}
            queries == IF w >= 4 THEN <<ad.query, FirstWords(3), FirstWords(2)>>
                       ELSE IF w = 3 THEN <<ad.query, FirstWords(2)>>
                       ELSE <<ad.query>>
        IN  /\ ad.level \in levels
            /\ Len(QueriesIssued(ad.log)) <= Cardinality(levels)
            /\ IsPrefix(QueriesIssued(ad.log), queries)
            /\ (ad.done /\ NoHitSoFar) => QueriesIssued(ad.log) = queries

\* C34 witness: a GitHub call for a query of exactly three words found
\* nothing and returned after two searches, the second for the first two
\* words.
C34_Witness ==
    /\ ad.backend = "github"
    /\ Len(Words(ad.query)) = 3
    /\ ad.done
    /\ NoHitSoFar
    /\ ad.level = 3
    /\ QueriesIssued(ad.log) = <<ad.query, FirstWords(2)>>

\* ---------------------------------------------------------------------------
\* a use case with an empty query

\* C35: when the resolved query of a use case is empty no adapter task is
\* submitted for it and _search_resources returns the four keys, each with
\* the empty sequence; after verify_and_finalize each of the four keys of
\* that use case holds exactly one placeholder.
C35_EmptyQuerySkipsAdapters ==
    /\ (RoundEntered /\ e_query = <<>>) =>
          /\ pc = "append"
          /\ DOMAIN e_futures = {}
          /\ e_running = {}
          /\ DOMAIN e_resources = BackendKeys
          /\ \A b \in BackendKeys : e_resources[b] = <<>>
    /\ pc = "done" =>
          \A i \in 1..Length(e_use_cases) :
              SearchQuery(ElementAt(e_use_cases, i)) = <<>> =>
                  /\ DOMAIN v_final["ai_use_cases"][i]["resources"] = BackendKeys
                  /\ \A b \in BackendKeys :
                        LET items == v_final["ai_use_cases"][i]["resources"][b]
                        IN  /\ Len(items) = 1
                            /\ IsPlaceholderFor(items[1], b,
                                                v_final["ai_use_cases"][i]["use_case"])

\* C35 witness: the run ended with two use cases, the second generated with
\* empty search_keywords, while every backend had hits for the first.
C35_Witness ==
    /\ pc = "done"
    /\ Length(e_use_cases) = 2
    /\ SearchQuery(ElementAt(e_use_cases, 2)) = <<>>
    /\ env = {}
    /\ \A b \in BackendKeys :
          /\ RealHits(v_final["ai_use_cases"][1]["resources"][b])
          /\ Len(v_final["ai_use_cases"][2]["resources"][b]) = 1

\* ---------------------------------------------------------------------------
\* execute_plan and the steps of the plan (SpecTwin)

\* the company execute_plan takes from a plan
CompanyOf(plan) == IF "company" \in DOMAIN plan THEN plan["company"] ELSE <<>>

RawList(use_case, b) == Get(Get(use_case, "resources", EmptyDict), b, <<>>)

\* the completeness check reported that there are no use cases
NoUseCasesReported(issues) ==
    \E i \in 1..Len(issues) : issues[i] = <<0, "No AI use-cases generated">>

\* C37: verify_and_finalize repairs only empty backend lists: the returned
\* company, company_summary and news_summary are those of the input, the use
\* cases are as many and in the same order, and every backend list that was
\* non-empty keeps its items, as many and in the same order; a summary
\* shorter than 10 characters and an empty use-case list are reported by the
\* completeness check and returned as they were.
C37_OnlyEmptyListsRepaired ==
    v_pc = "done" =>
        LET raw_cases == UseCasesOf(v_raw)
            raw_summary == Get(v_raw, "company_summary", <<>>)
        IN  /\ \A key \in {"company", "company_summary", "news_summary"} :
                  v_final[key] = Get(v_raw, key, <<>>)
            /\ Len(v_final["ai_use_cases"]) = Len(raw_cases)
            /\ \A i \in 1..Len(raw_cases) :
                  /\ v_final["ai_use_cases"][i]["use_case"] = Get(raw_cases[i], "use_case", <<>>)
                  /\ v_final["ai_use_cases"][i]["description"]
                        = Get(raw_cases[i], "description", <<>>)
                  /\ \A b \in BackendKeys :
                        LET before == RawList(raw_cases[i], b)
                            after == v_final["ai_use_cases"][i]["resources"][b]
                        IN  before # <<>> =>
                              /\ Len(after) = Len(before)
                              /\ \A k \in 1..Len(before) :
                                    after[k]["url"] = Get(before[k], "url", <<>>)
            /\ StrLen(raw_summary) < 10 =>
                  /\ SummaryReported(v_issues)
                  /\ v_final["company_summary"] = raw_summary
            /\ raw_cases = <<>> =>
                  /\ NoUseCasesReported(v_issues)
                  /\ v_final["ai_use_cases"] = <<>>

\* C37 witness: a result with a too-short summary and two differently named
\* use cases, the first with one empty list among full ones, was verified:
\* the empty list was repaired and everything else returned as it was.
C37_Witness ==
    /\ v_pc = "done"
    /\ Get(v_raw, "company_summary", <<>>) = <<"Too", " ", "short">>
    /\ SummaryReported(v_issues)
    /\ Len(UseCasesOf(v_raw)) = 2
    /\ Get(v_raw["ai_use_cases"][1], "use_case", <<>>)
          # Get(v_raw["ai_use_cases"][2], "use_case", <<>>)
    /\ RawList(v_raw["ai_use_cases"][1], "arxiv") = <<>>
    /\ Len(RawList(v_raw["ai_use_cases"][1], "github")) = 2
    /\ Len(v_final["ai_use_cases"][1]["resources"]["arxiv"]) = 1
    /\ Len(v_final["ai_use_cases"][1]["resources"]["github"]) = 2

====
